---- MODULE Spec2Model ----
(***************************************************************************)
(* Attendance tracker (zao_bot): sessions, daily-earliest, streaks and     *)
(* achievements over the SQL storage, with the command handlers cmd_zao    *)
(* and cmd_wan running as concurrent sequences of storage transactions.    *)
(*                                                                         *)
(* Time is counted in seconds of local wall clock since 00:00:00 of        *)
(* calendar day 0.  A calendar date is its day number; the ISO string of   *)
(* a date is the one-element tuple <<day number>>, and a string that is    *)
(* no ISO date is a tuple of another length.  The ISO string of a          *)
(* datetime (the form the sqlite dialect stores) is <<date, second of      *)
(* day>>, NULL is <<>>.                                                    *)
(***************************************************************************)
EXTENDS Integers, Sequences, FiniteSets, TLC

\* ---------------------------------------------------------------- bounds
\* calendar days 0..MaxDay of the handled events
MaxDay == 1
\* events handled by the concurrent handlers, and by the one-at-a-time dispatcher
MaxEvents == 2
MaxSeqEvents == 3
\* direct update_streak calls
MaxCalls == 3
\* calendar days 0..MaxClockDay of the business-day calculator's inputs
MaxClockDay == 2
\* direct calls of the storage and achievement functions
MaxApiCalls == 3
\* calls of check_in, check_out and leaderboard made on every storage alike
MaxBoardCalls == 3
\* calls of check_in and today_checkin_position
MaxPosCalls == 4
\* updates of the backlog handled by the replicas
MaxOntimeEvents == 3
\* /wake commands and polls of check_wake_reminders
MaxWakeCalls == 4
\* /zao and /wan updates handled on each engine
MaxKeyEvents == 2
\* /zao and /wan updates of two chats
MaxChatEvents == 3
\* /gun updates
MaxGunEvents == 5

\* ------------------------------------------------------- program constants
CUTOFF_HOUR == 4
STREAK_PERIOD == 7
SecPerHour == 60 * 60
SecPerDay == 24 * SecPerHour

ACH_DAILY_EARLIEST == "daily_earliest"
ACH_STREAK_EARLIEST_7 == "streak_earliest_7"
ACH_ONTIME_8H == "ontime_8h"
ACH_LONGDAY_12H == "longday_12h"

NULL == <<>>

\* ------------------------------------------------------------ input sets
Users == {1, 2}
Chats == {1}
\* handler slots: two handlers at most run at the same time
Procs == {1, 2}

HM(h, m) == h * SecPerHour + m * 60
TimesOfDay == {HM(3, 30), HM(3, 45), HM(10, 0), HM(18, 0)}
\* the events of calendar days 0..MaxDay, up to 03:30 of the last day
EventTimes == {ts \in {d * SecPerDay + t : d \in 0..MaxDay, t \in TimesOfDay} :
                   ts <= MaxDay * SecPerDay + HM(3, 30)}

\* ------------------------------------------------------------ time_utils
\* datetime.date(): the calendar date of a datetime
date(dt) == dt \div SecPerDay

\* datetime.replace(hour=h, minute=0, second=0, microsecond=0)
replace_hour(dt, h) == date(dt) * SecPerDay + h * SecPerHour

\* date.isoformat() and date.fromisoformat()
date_isoformat(d) == <<d>>
is_iso_date(s) == Len(s) = 1
date_fromisoformat(s) == s[1]

\* datetime.isoformat() and datetime.fromisoformat() (_parse_dt)
isoformat(dt) == <<date(dt), dt % SecPerDay>>
parse_dt(v) == v[1] * SecPerDay + v[2]

\* mutant: a timestamp exactly at the cutoff still counts as the previous day
business_day_range_inclusive(now, cutoff_hour) ==
    LET cutoff == replace_hour(now, cutoff_hour)
        start == IF now <= cutoff THEN cutoff - SecPerDay ELSE cutoff
    IN  <<start, start + SecPerDay>>

business_day_range(now, cutoff_hour) ==
    LET cutoff == replace_hour(now, cutoff_hour)
        start == IF now < cutoff THEN cutoff - SecPerDay ELSE cutoff
    IN  <<start, start + SecPerDay>>

\* day_key: the calendar date, without the cutoff
day_key(dt) == date_isoformat(date(dt))

\* mutant: the calendar day is used where the business day is meant
business_day_key_calendar(dt, cutoff_hour) == day_key(dt)

business_day_key(dt, cutoff_hour) ==
    date_isoformat(date(business_day_range(dt, cutoff_hour)[1]))


\* ----------------------------------------------------------------- state
VARIABLES
    users,               \* table users: the user ids upserted
    chats,               \* table chats: the chat ids upserted
    sessions,            \* table sessions: sequence of rows, id = index
    daily_earliest,      \* table daily_earliest: set of rows
    streaks,             \* table streaks: set of rows
    achievement_events,  \* table achievement_events: sequence of rows
    achievement_stats,   \* table achievement_stats: set of rows
    pc,                  \* per handler slot: the next transaction it runs
    loc,                 \* per handler slot: the handler's local variables
    hist,                \* log of the finished storage calls and of cmd_wan's refusals
    nstarted,            \* number of events handed to a handler so far
    bd,                  \* business-day calculator: inputs and results
    legacy_sessions,     \* table sessions of the storages db.py and PostgresStorage
    wake_reminders,      \* table wake_reminders: set of rows
    russian_roulette,    \* table russian_roulette: set of rows, one per chat at most
    engine               \* the database engine: SQL dialect and session time zone

db == <<users, chats, sessions, daily_earliest, streaks, achievement_events, achievement_stats>>
vars == <<users, chats, sessions, daily_earliest, streaks, achievement_events,
          achievement_stats, pc, loc, hist, nstarted, bd, legacy_sessions, wake_reminders, russian_roulette, engine>>

Idle == [cmd |-> "none", chat |-> 0, user |-> 0, now |-> 0, sid |-> 0, ci |-> 0,
         dur |-> 0, day |-> NULL, row |-> NULL, args |-> <<>>, game |-> NULL]

Max(S) == CHOOSE x \in S : \A y \in S : y <= x

\* ------------------------------------------------------ sessions (storage)
\* mutant: the unique index on (chat_id, user_id, session_day) is not created
idx_sessions_dropped(c, u, d) == FALSE

\* mutant: the unique index is on (user_id, session_day), without the chat
idx_sessions_user_day_any_chat(c, u, d) ==
    \E i \in DOMAIN sessions :
        /\ sessions[i].user_id = u
        /\ sessions[i].session_day = d

\* UNIQUE INDEX idx_sessions_user_day ON sessions(chat_id, user_id, session_day):
\* TRUE when inserting (c, u, d) would violate it
idx_sessions_user_day(c, u, d) ==
    \E i \in DOMAIN sessions :
        /\ sessions[i].chat_id = c
        /\ sessions[i].user_id = u
        /\ sessions[i].session_day = d

\* FOREIGN KEY(chat_id) REFERENCES chats, FOREIGN KEY(user_id) REFERENCES users
fk_chat_user(c, u) == c \in chats /\ u \in users

\* mutant: check_in looks at the foreign keys only and reports every insert as done
check_in_inserts_fk_only(c, u, ts) == fk_chat_user(c, u)

\* mutant: the old unique index idx_open_session (one open session per chat and user)
\* is still in place
check_in_inserts_one_open(c, u, ts) ==
    /\ fk_chat_user(c, u)
    /\ ~idx_sessions_user_day(c, u, business_day_key(ts, CUTOFF_HOUR))
    /\ ~\E i \in DOMAIN sessions :
          sessions[i].chat_id = c /\ sessions[i].user_id = u /\ sessions[i].check_out = NULL

\* check_in: the INSERT raises IntegrityError (and check_in returns False) or commits
check_in_inserts(c, u, ts) ==
    /\ fk_chat_user(c, u)
    /\ ~idx_sessions_user_day(c, u, business_day_key(ts, CUTOFF_HOUR))

session_row(c, u, ts) ==
    [chat_id |-> c, user_id |-> u,
     session_day |-> business_day_key(ts, CUTOFF_HOUR),
     check_in |-> isoformat(ts), check_out |-> NULL]

\* mutant: a refused INSERT replaces the row of the same (chat, user, day)
sessions_after_check_in_replace(c, u, ts) ==
    IF check_in_inserts(c, u, ts) THEN Append(sessions, session_row(c, u, ts))
    ELSE [i \in DOMAIN sessions |->
            IF /\ sessions[i].chat_id = c /\ sessions[i].user_id = u
               /\ sessions[i].session_day = business_day_key(ts, CUTOFF_HOUR)
            THEN session_row(c, u, ts) ELSE sessions[i]]

\* check_in: the sessions table after the transaction: the new row is appended, or
\* the IntegrityError rolled the INSERT back
sessions_after_check_in(c, u, ts) ==
    IF check_in_inserts(c, u, ts) THEN Append(sessions, session_row(c, u, ts)) ELSE sessions

\* mutant: the filter check_out IS NULL is missing
open_session_ids_closed_too(c, u, day) ==
    {i \in DOMAIN sessions :
        /\ sessions[i].chat_id = c
        /\ sessions[i].user_id = u
        /\ (day = NULL \/ sessions[i].session_day = day)}

\* get_open_session: WHERE chat_id, user_id, check_out IS NULL
\*   AND (:day IS NULL OR session_day = :day) ORDER BY id DESC LIMIT 1
\* 0 stands for None
open_session_ids(c, u, day) ==
    {i \in DOMAIN sessions :
        /\ sessions[i].chat_id = c
        /\ sessions[i].user_id = u
        /\ sessions[i].check_out = NULL
        /\ (day = NULL \/ sessions[i].session_day = day)}

\* mutant: the day filter is dropped, any open session of (chat, user) is found
get_open_session_any_day(c, u, day) ==
    IF open_session_ids(c, u, NULL) = {} THEN 0 ELSE Max(open_session_ids(c, u, NULL))

get_open_session(c, u, day) ==
    IF open_session_ids(c, u, day) = {} THEN 0 ELSE Max(open_session_ids(c, u, day))

session_today_exists(c, u, day) ==
    \E i \in DOMAIN sessions :
        /\ sessions[i].chat_id = c
        /\ sessions[i].user_id = u
        /\ sessions[i].session_day = day

\* mutant: the filter check_out IS NOT NULL is replaced by check_out IS NULL
session_today_completed_open(c, u, day) ==
    \E i \in DOMAIN sessions :
        /\ sessions[i].chat_id = c
        /\ sessions[i].user_id = u
        /\ sessions[i].session_day = day
        /\ sessions[i].check_out = NULL

session_today_completed(c, u, day) ==
    \E i \in DOMAIN sessions :
        /\ sessions[i].chat_id = c
        /\ sessions[i].user_id = u
        /\ sessions[i].session_day = day
        /\ sessions[i].check_out # NULL

\* text comparison of two stored ISO datetimes
iso_lt(a, b) == a[1] < b[1] \/ (a[1] = b[1] /\ a[2] < b[2])

\* mutant: sessions of equal check_in all count, whatever their id
today_checkin_position_no_id(c, sid, ci, day) ==
    LET n == Cardinality({i \in DOMAIN sessions :
                 /\ sessions[i].chat_id = c
                 /\ sessions[i].session_day = day
                 /\ (iso_lt(sessions[i].check_in, isoformat(ci))
                     \/ sessions[i].check_in = isoformat(ci))})
    IN  IF n > 0 THEN n ELSE 1

\* SELECT COUNT(1) FROM sessions WHERE chat_id, session_day
\*   AND (check_in < :ci OR (check_in = :ci AND id <= :id)); n if n > 0 else 1
today_checkin_position(c, sid, ci, day) ==
    LET n == Cardinality({i \in DOMAIN sessions :
                 /\ sessions[i].chat_id = c
                 /\ sessions[i].session_day = day
                 /\ (iso_lt(sessions[i].check_in, isoformat(ci))
                     \/ (sessions[i].check_in = isoformat(ci) /\ i <= sid))})
    IN  IF n > 0 THEN n ELSE 1

\* mutant: the check-out timestamp is stored as given
check_out_value_unclamped(ts, check_in_ts) == ts

\* check_out: ts = max(ts, check_in_ts)
check_out_value(ts, check_in_ts) == IF ts < check_in_ts THEN check_in_ts ELSE ts


\* ------------------------------------------- the storages of db.py and PostgresStorage
\* UNIQUE INDEX idx_open_session ON sessions(chat_id, user_id) WHERE check_out IS NULL
\* of db.init_db and PostgresStorage.init_db: TRUE when inserting an open row of (c, u)
\* into tbl would violate it
idx_open_session(tbl, c, u) ==
    \E i \in DOMAIN tbl :
        tbl[i].chat_id = c /\ tbl[i].user_id = u /\ tbl[i].check_out = NULL

\* db.check_in, PostgresStorage.check_in: the INSERT commits (True) or meets the index (False)
legacy_check_in_inserts(tbl, c, u) == fk_chat_user(c, u) /\ ~idx_open_session(tbl, c, u)

legacy_after_check_in(tbl, c, u, ts) ==
    IF legacy_check_in_inserts(tbl, c, u) THEN Append(tbl, session_row(c, u, ts)) ELSE tbl

\* db.get_open_session(chat_id, user_id) has no day; PostgresStorage.check_out passes
\* day = business_day_key(ts).  0 stands for None
legacy_get_open_session(tbl, c, u, day) ==
    LET S == {i \in DOMAIN tbl :
                 /\ tbl[i].chat_id = c /\ tbl[i].user_id = u /\ tbl[i].check_out = NULL
                 /\ (day = NULL \/ tbl[i].session_day = day)}
    IN  IF S = {} THEN 0 ELSE Max(S)

\* the session check_out(chat_id, user_id, ts) of storage impl closes, 0 for none
check_out_target(impl, tbl, c, u, ts) ==
    legacy_get_open_session(tbl, c, u,
        IF impl = "db" THEN NULL ELSE business_day_key(ts, CUTOFF_HOUR))

\* check_out: the table after the UPDATE, and the duration returned
table_after_check_out(impl, tbl, c, u, ts) ==
    LET sid == check_out_target(impl, tbl, c, u, ts)
    IN  IF sid = 0 THEN tbl
        ELSE [tbl EXCEPT ![sid].check_out =
                 isoformat(check_out_value(ts, parse_dt(tbl[sid].check_in)))]

check_out_duration(impl, tbl, c, u, ts) ==
    LET sid == check_out_target(impl, tbl, c, u, ts)
    IN  IF sid = 0 THEN 0
        ELSE check_out_value(ts, parse_dt(tbl[sid].check_in)) - parse_dt(tbl[sid].check_in)

\* ---------------------------------------------------- leaderboard (storage)
\* the offset of the configured time zone (Asia/Shanghai) from UTC
TZ_OFFSET == 8 * SecPerHour

\* the wall clock of the datetime _parse_dt returns for a stored check_in whose wall
\* clock in the configured zone is t: a TEXT column holds the isoformat string with
\* its offset and fromisoformat gives the same wall clock back; a TIMESTAMPTZ column
\* holds the instant and the driver returns it in the time zone of the session
wall_clock(t) ==
    IF engine.dialect = "postgresql" THEN t - TZ_OFFSET + engine.timezone ELSE t

\* sqlite's julianday(x) is the double nearest to (milliseconds since the Julian
\* epoch) / 86400000.  Julian day numbers of this era lie between 2^21 and 2^22, where
\* doubles are the multiples of 2^-31: the value is a whole number of days plus
\* julianday_frac(s) * 2^-31 for the second s of the Julian day, which starts at noon
\* UTC.  s * 2^31 / 86400 = s * 2^24 / 675, rounded to nearest (a tie cannot occur)
julianday_frac(s) ==
    LET q == s \div 675
        r == s % 675
        a == (r * 4096) \div 675
        b == (r * 4096) % 675
    IN  q * 4096 * 4096 + a * 4096 + (2 * b * 4096 + 675) \div 1350

julian_day(t) == (t - TZ_OFFSET + 12 * SecPerHour) \div SecPerDay
julian_second(t) == (t - TZ_OFFSET + 12 * SecPerHour) % SecPerDay

\* CAST((julianday(b) - julianday(a)) * 86400 AS INTEGER) for a <= b: the difference of
\* the two doubles and its product with 86400 are exact, the cast truncates
julianday_seconds_up(a, b) ==
    LET dF == julianday_frac(julian_second(b)) - julianday_frac(julian_second(a))
        h == dF \div 4096
        l == dF % 4096
    IN  (julian_day(b) - julian_day(a)) * SecPerDay + (h * 675 + (l * 675) \div 4096) \div 4096

julianday_seconds(a, b) ==
    IF a <= b THEN julianday_seconds_up(a, b) ELSE 0 - julianday_seconds_up(b, a)

\* EXTRACT(EPOCH FROM (b - a))::bigint of the postgresql dialect
epoch_seconds(a, b) == b - a

seconds_expr(dialect, a, b) ==
    IF dialect = "sqlite" THEN julianday_seconds(a, b) ELSE epoch_seconds(a, b)

\* the implementations of leaderboard and leaderboard_global: which class, which SQL
\* dialect, which table
LeaderboardImpls ==
    {[class |-> "SQLAlchemyStorage", dialect |-> "sqlite"],
     [class |-> "SQLAlchemyStorage", dialect |-> "postgresql"],
     [class |-> "db", dialect |-> "sqlite"],
     [class |-> "PostgresStorage", dialect |-> "postgresql"]}

table_of(impl) ==
    IF impl.class = "SQLAlchemyStorage" THEN sessions
    ELSE IF impl.class = "db" THEN legacy_sessions.db ELSE legacy_sessions.postgres_storage

\* FROM sessions s JOIN users u WHERE s.chat_id = :cid (c = 0: leaderboard_global,
\* WHERE 1=1), AND s.session_day = :d in mode today; SQLAlchemyStorage adds
\* AND s.check_out IS NOT NULL in any other mode
leaderboard_rows(impl, c, mode, now) ==
    LET tbl == table_of(impl)
    IN  {i \in DOMAIN tbl :
            /\ tbl[i].user_id \in users
            /\ (c = 0 \/ tbl[i].chat_id = c)
            /\ (mode = "today" => tbl[i].session_day = business_day_key(now, CUTOFF_HOUR))
            /\ ((mode # "today" /\ impl.class = "SQLAlchemyStorage") => tbl[i].check_out # NULL)}

\* the seconds of one row: check_out - check_in, or :now - check_in while it is open
row_seconds(impl, i, now) ==
    LET r == table_of(impl)[i]
    IN  seconds_expr(impl.dialect, parse_dt(r.check_in),
                     IF r.check_out = NULL THEN now ELSE parse_dt(r.check_out))

RECURSIVE sum_seconds(_, _, _)
sum_seconds(impl, S, now) ==
    IF S = {} THEN 0
    ELSE LET i == CHOOSE x \in S : TRUE
         IN  row_seconds(impl, i, now) + sum_seconds(impl, S \ {i}, now)

\* SUM(...) ... GROUP BY u.user_id: the rows <<user_id, seconds>> (the display name is
\* left out)
leaderboard_groups(impl, c, mode, now) ==
    LET rows == leaderboard_rows(impl, c, mode, now)
        tbl == table_of(impl)
    IN  {<<u, sum_seconds(impl, {i \in rows : tbl[i].user_id = u}, now)>> :
            u \in {tbl[i].user_id : i \in rows}}

\* ORDER BY seconds DESC: the lists the query may return (rows of equal seconds come
\* in any order)
ordered_desc(G) ==
    {f \in [1..Cardinality(G) -> G] :
        /\ \A i, j \in 1..Cardinality(G) : i # j => f[i] # f[j]
        /\ \A i, j \in 1..Cardinality(G) : i < j => f[i][2] >= f[j][2]}

leaderboard(impl, c, mode, now) == ordered_desc(leaderboard_groups(impl, c, mode, now))

\* -------------------------------------------------------- streak rank (storage)
Min(S) == CHOOSE x \in S : \A y \in S : x <= y

\* the implementations of streak_rank_global: SQLAlchemyStorage in its two dialects,
\* and db.streak_rank_global behind SQLiteStorage
RankImpls ==
    {[class |-> "SQLAlchemyStorage", dialect |-> "sqlite"],
     [class |-> "SQLAlchemyStorage", dialect |-> "postgresql"],
     [class |-> "db", dialect |-> "sqlite"]}

\* FROM streaks st JOIN users u WHERE st.key = :k
rank_rows(k, u) == {r \in streaks : r.key = k /\ r.user_id = u /\ u \in users}

\* MAX(st.streak) GROUP BY u.user_id, and the row with rn = 1 of
\* ROW_NUMBER() OVER (PARTITION BY st.user_id ORDER BY st.streak DESC, st.chat_id ASC)
best_streak(k, u) == Max({r.streak : r \in rank_rows(k, u)})
best_chat(k, u) == Min({r.chat_id : r \in {x \in rank_rows(k, u) : x.streak = best_streak(k, u)}})

\* one row <<user_id, streak, chat_id>> per user (name and chat title are left out);
\* the query of SQLAlchemyStorage on a dialect other than postgresql has no chat
\* column and the row is built with None, for which 0 stands
rank_groups(impl, k) ==
    {<<u, best_streak(k, u),
       IF impl.class = "SQLAlchemyStorage" /\ impl.dialect # "postgresql"
       THEN 0 ELSE best_chat(k, u)>> : u \in {x \in users : rank_rows(k, x) # {}}}

\* ORDER BY streak DESC, u.user_id ASC LIMIT :lim
streak_rank_global(impl, k, limit) ==
    LET G == rank_groups(impl, k)
        n == Cardinality(G)
        f == CHOOSE g \in [1..n -> G] :
                 \A i, j \in 1..n :
                     i < j => \/ g[i][2] > g[j][2]
                              \/ (g[i][2] = g[j][2] /\ g[i][1] < g[j][1])
    IN  [i \in 1..(IF limit < n THEN limit ELSE n) |-> f[i]]

\* -------------------------------------------------- achievements (storage)
\* PRIMARY KEY(chat_id, day) of daily_earliest: TRUE when (c, d) is taken
pk_daily_earliest(c, d) ==
    \E r \in daily_earliest : r.chat_id = c /\ r.day = d

\* mutant: daily_earliest has no primary key, every INSERT commits
set_daily_earliest_always(c, d) == TRUE

\* set_daily_earliest: the INSERT commits (True) or raises IntegrityError (False)
set_daily_earliest_inserts(c, d) == ~pk_daily_earliest(c, d)

daily_earliest_row(c, d, u, sid, ci) ==
    [chat_id |-> c, day |-> d, user_id |-> u, session_id |-> sid, check_in |-> isoformat(ci)]

\* the partial unique indexes of achievement_events; a NULL column never conflicts
idx_ae_daily_unique(c, k, d) ==
    /\ k = ACH_DAILY_EARLIEST
    /\ d # NULL
    /\ \E i \in DOMAIN achievement_events :
          LET e == achievement_events[i]
          IN  e.key = k /\ e.chat_id = c /\ e.day = d

idx_ae_streak7_unique(c, u, k, d) ==
    /\ k = ACH_STREAK_EARLIEST_7
    /\ d # NULL
    /\ \E i \in DOMAIN achievement_events :
          LET e == achievement_events[i]
          IN  e.key = k /\ e.chat_id = c /\ e.user_id = u /\ e.day = d

\* mutant: idx_ae_session_unique is not created
idx_ae_session_missing(c, u, k, sid) == FALSE

idx_ae_session_unique(c, u, k, sid) ==
    /\ k \in {ACH_ONTIME_8H, ACH_LONGDAY_12H}
    /\ sid # 0
    /\ \E i \in DOMAIN achievement_events :
          LET e == achievement_events[i]
          IN  e.key = k /\ e.chat_id = c /\ e.user_id = u /\ e.session_id = sid

\* award_achievement: the event INSERT commits (True) or raises IntegrityError (False)
award_inserts(c, u, k, d, sid) ==
    /\ ~idx_ae_daily_unique(c, k, d)
    /\ ~idx_ae_streak7_unique(c, u, k, d)
    /\ ~idx_ae_session_unique(c, u, k, sid)

event_row(c, u, k, d, sid) ==
    [chat_id |-> c, user_id |-> u, key |-> k, day |-> d, session_id |-> sid]

\* mutant: on conflict the stat row is written again with count 1
stats_upsert_reset(c, u, k) ==
    {r \in achievement_stats : ~(r.chat_id = c /\ r.user_id = u /\ r.key = k)}
        \cup {[chat_id |-> c, user_id |-> u, key |-> k, count |-> 1]}

\* INSERT INTO achievement_stats ... ON CONFLICT DO UPDATE SET count = count + 1
stats_upsert(c, u, k) ==
    IF \E r \in achievement_stats : r.chat_id = c /\ r.user_id = u /\ r.key = k
    THEN {IF r.chat_id = c /\ r.user_id = u /\ r.key = k
          THEN [r EXCEPT !.count = @ + 1] ELSE r : r \in achievement_stats}
    ELSE achievement_stats \cup {[chat_id |-> c, user_id |-> u, key |-> k, count |-> 1]}

\* award_achievement as one transaction: event insert, then stat upsert
award_achievement(c, u, k, d, sid) ==
    IF award_inserts(c, u, k, d, sid)
    THEN /\ achievement_events' = Append(achievement_events, event_row(c, u, k, d, sid))
         /\ achievement_stats' = stats_upsert(c, u, k)
    ELSE UNCHANGED <<achievement_events, achievement_stats>>

get_achievement_count(c, u, k) ==
    IF \E r \in achievement_stats : r.chat_id = c /\ r.user_id = u /\ r.key = k
    THEN (CHOOSE r \in achievement_stats : r.chat_id = c /\ r.user_id = u /\ r.key = k).count
    ELSE 0

\* ------------------------------------------------------- streaks (storage)
streak_rows(c, u, k) ==
    {r \in streaks : r.chat_id = c /\ r.user_id = u /\ r.key = k}

\* SELECT last_day, streak FROM streaks WHERE chat_id, user_id, key: NULL or <<last_day, streak>>
select_streak(c, u, k) ==
    IF streak_rows(c, u, k) = {} THEN NULL
    ELSE LET r == CHOOSE r \in streak_rows(c, u, k) : TRUE IN <<r.last_day, r.streak>>

\* mutant: any later day continues the streak
new_streak_any_gap(day, last_day, prev) ==
    IF is_iso_date(day) /\ is_iso_date(last_day)
    THEN IF date_fromisoformat(day) - date_fromisoformat(last_day) >= 1 THEN prev + 1 ELSE 1
    ELSE 1

\* prev + 1 if (fromisoformat(day) - fromisoformat(last_day)).days == 1 else 1;
\* 1 when either string does not parse
new_streak(day, last_day, prev) ==
    IF is_iso_date(day) /\ is_iso_date(last_day)
    THEN IF date_fromisoformat(day) - date_fromisoformat(last_day) = 1 THEN prev + 1 ELSE 1
    ELSE 1

\* UPDATE streaks SET last_day, streak WHERE chat_id, user_id, key
streaks_update(c, u, k, d, s) ==
    {IF r.chat_id = c /\ r.user_id = u /\ r.key = k
     THEN [r EXCEPT !.last_day = d, !.streak = s] ELSE r : r \in streaks}

streak_row(c, u, k, d, s) ==
    [chat_id |-> c, user_id |-> u, key |-> k, last_day |-> d, streak |-> s]

\* ----------------------------------------------------------- achievements
\* date.weekday() <= 4; day 0 of the model is a Friday
weekday(d) == (d + 4) % 7
is_weekday(day) == IF is_iso_date(day) THEN weekday(date_fromisoformat(day)) <= 4 ELSE TRUE

abs(x) == IF x < 0 THEN 0 - x ELSE x
\* mutant: the window excludes its two ends
ontime_window_open(dur) == abs(dur - 8 * SecPerHour) < 60

\* abs(duration - timedelta(hours=8)) <= timedelta(minutes=1)
ontime_window(dur) == abs(dur - 8 * SecPerHour) <= 60
\* mutant: twelve hours sharp already count as a long day
longday_inclusive(dur) == dur >= 12 * SecPerHour

\* duration > timedelta(hours=12)
longday(dur) == dur > 12 * SecPerHour


\* mutant: every streak value from the period on is awarded
streak7_due_from_period(s) == s >= STREAK_PERIOD

\* on_check_in: earliest_streak > 0 and earliest_streak % 7 == 0
streak7_due(s) == s > 0 /\ s % STREAK_PERIOD = 0


\* ---------------------------------------------------------------- handlers
\* a finished storage call: its arguments, what it returned (ok, val) and the session
\* it was about; key is the achievement or streak key, "" when the call has none
Call(op, l, key, day, ok, val, sid) ==
    [op |-> op, chat |-> l.chat, user |-> l.user, ts |-> l.now, key |-> key, day |-> day,
     ok |-> ok, val |-> val, sid |-> sid]

today_key(p) == business_day_key(loc[p].now, CUTOFF_HOUR)

Goto(p, label) == pc' = [pc EXCEPT ![p] = label]
\* the handler returns, or an exception ends it
Finish(p) == pc' = [pc EXCEPT ![p] = "idle"] /\ loc' = [loc EXCEPT ![p] = Idle]

\* an update arrives and a handler starts: _upsert, event_time
Begin(p, cmd, c, u, ts, limit) ==
    /\ pc[p] = "idle"
    /\ nstarted < limit
    /\ nstarted' = nstarted + 1
    /\ users' = users \cup {u}
    /\ chats' = chats \cup {c}
    /\ loc' = [loc EXCEPT ![p] = [Idle EXCEPT !.cmd = cmd, !.chat = c, !.user = u, !.now = ts]]
    /\ Goto(p, IF cmd = "zao" THEN "zao_completed" ELSE "wan_check_out")
    /\ UNCHANGED <<sessions, daily_earliest, streaks, achievement_events,
                   achievement_stats, hist, bd, legacy_sessions, wake_reminders, russian_roulette, engine>>

\* the handler step that calls award_achievement and logs what it returned
Award(p, k, sid) ==
    /\ award_achievement(loc[p].chat, loc[p].user, k, loc[p].day, sid)
    /\ hist' = Append(hist, Call("award_achievement", loc[p], k, loc[p].day,
                                 award_inserts(loc[p].chat, loc[p].user, k, loc[p].day, sid),
                                 0, sid))

\* handlers of several replicas run side by side; the slots are interchangeable,
\* so an event takes the lowest free one
Start(p, cmd, c, u, ts) ==
    /\ \A q \in Procs : q < p => pc[q] # "idle"
    /\ Begin(p, cmd, c, u, ts, MaxEvents)

\* one dispatcher: an event is handled when the one before has been handled
StartSeq(p, cmd, c, u, ts) ==
    /\ \A q \in Procs : pc[q] = "idle" /\ q >= p
    /\ Begin(p, cmd, c, u, ts, MaxSeqEvents)

\* the message cmd_zao renders and sends when the day's session is completed
ZaoReply(p, message) == Call("zao_reply", loc[p], message, today_key(p), FALSE, 0, 0)

\* the message cmd_zao renders and sends after a refused check_in
CheckinReply(p, message) == Call("checkin_reply", loc[p], message, today_key(p), FALSE, 0, 0)

\* cmd_zao: session_today_completed -> reply day_ended
ZaoCompleted(p) ==
    /\ pc[p] = "zao_completed"
    /\ IF session_today_completed(loc[p].chat, loc[p].user, today_key(p))
       THEN /\ hist' = Append(hist, ZaoReply(p, "day_ended"))
            /\ Finish(p)
       ELSE Goto(p, "zao_check_in") /\ UNCHANGED <<loc, hist>>
    /\ UNCHANGED <<db, nstarted, bd, legacy_sessions, wake_reminders, russian_roulette, engine>>

\* cmd_zao: ok = storage.check_in(...)
ZaoCheckIn(p) ==
    /\ pc[p] = "zao_check_in"
    /\ LET l == loc[p]
           ok == check_in_inserts(l.chat, l.user, l.now)
       IN  /\ sessions' = sessions_after_check_in(l.chat, l.user, l.now)
           /\ hist' = Append(hist, Call("check_in", l, "", today_key(p), ok, 0,
                                        IF ok THEN Len(sessions) + 1 ELSE 0))
           /\ Goto(p, IF ok THEN "zao_get_open" ELSE "zao_already")
    /\ UNCHANGED <<users, chats, daily_earliest, streaks, achievement_events,
                   achievement_stats, loc, nstarted, bd, legacy_sessions, wake_reminders, russian_roulette, engine>>

\* cmd_zao after a successful check_in: open_sess = get_open_session(day=today_key)
ZaoGetOpen(p) ==
    /\ pc[p] = "zao_get_open"
    /\ LET sid == get_open_session(loc[p].chat, loc[p].user, today_key(p))
       IN  IF sid = 0
           THEN Finish(p)
           ELSE /\ loc' = [loc EXCEPT ![p].sid = sid,
                                      ![p].ci = parse_dt(sessions[sid].check_in)]
                /\ Goto(p, "zao_position")
    /\ UNCHANGED <<db, hist, nstarted, bd, legacy_sessions, wake_reminders, russian_roulette, engine>>

\* cmd_zao: today_checkin_position and the reply; on_check_in starts with
\* day = business_day_key(check_in_ts)
ZaoPosition(p) ==
    /\ pc[p] = "zao_position"
    /\ today_checkin_position(loc[p].chat, loc[p].sid, loc[p].ci, today_key(p)) >= 1
    /\ loc' = [loc EXCEPT ![p].day = business_day_key(wall_clock(loc[p].ci), CUTOFF_HOUR)]
    /\ Goto(p, "oci_set_daily_earliest")
    /\ UNCHANGED <<db, hist, nstarted, bd, legacy_sessions, wake_reminders, russian_roulette, engine>>

\* on_check_in: is_earliest = storage.set_daily_earliest(...)
OciSetDailyEarliest(p) ==
    /\ pc[p] = "oci_set_daily_earliest"
    /\ LET l == loc[p]
           is_earliest == set_daily_earliest_inserts(l.chat, l.day)
       IN  /\ hist' = Append(hist, Call("set_daily_earliest", l, "", l.day, is_earliest, 0, l.sid))
           /\ IF is_earliest
              THEN /\ daily_earliest' = daily_earliest \cup
                         {daily_earliest_row(l.chat, l.day, l.user, l.sid, l.ci)}
                   /\ Goto(p, "oci_award_daily")
                   /\ UNCHANGED loc
              ELSE /\ UNCHANGED daily_earliest
                   /\ Finish(p)
    /\ UNCHANGED <<users, chats, sessions, streaks, achievement_events,
                   achievement_stats, nstarted, bd, legacy_sessions, wake_reminders, russian_roulette, engine>>

\* on_check_in: storage.award_achievement(key=ACH_DAILY_EARLIEST, day=day)
OciAwardDaily(p) ==
    /\ pc[p] = "oci_award_daily"
    /\ Award(p, ACH_DAILY_EARLIEST, 0)
    /\ Goto(p, "streak_read")
    /\ UNCHANGED <<users, chats, sessions, daily_earliest, streaks, loc, nstarted, bd, legacy_sessions, wake_reminders, russian_roulette, engine>>

\* update_streak: the SELECT
StreakRead(p) ==
    /\ pc[p] = "streak_read"
    /\ loc' = [loc EXCEPT ![p].row = select_streak(loc[p].chat, loc[p].user, "earliest")]
    /\ Goto(p, "streak_write")
    /\ UNCHANGED <<db, hist, nstarted, bd, legacy_sessions, wake_reminders, russian_roulette, engine>>

\* update_streak: the UPDATE (a row was read) or the INSERT (none was), and the
\* return; an INSERT that meets a row raises IntegrityError, which nothing catches.
\* on_check_in goes on to streak_earliest_7 when the count is a multiple of 7.
StreakWrite(p) ==
    /\ pc[p] = "streak_write"
    /\ LET l == loc[p]
           found == l.row # NULL
           raises == ~found /\ streak_rows(l.chat, l.user, "earliest") # {}
           s == IF found THEN new_streak(l.day, l.row[1], l.row[2]) ELSE 1
       IN  /\ streaks' = IF raises THEN streaks
                         ELSE IF found THEN streaks_update(l.chat, l.user, "earliest", l.day, s)
                         ELSE streaks \cup {streak_row(l.chat, l.user, "earliest", l.day, s)}
           /\ hist' = Append(hist, Call("update_streak", l, "earliest", l.day, ~raises,
                                        IF raises THEN 0 ELSE s, 0))
           /\ IF l.cmd = "zao" /\ ~raises /\ streak7_due(s)
              THEN Goto(p, "oci_award_streak7") /\ UNCHANGED loc
              ELSE Finish(p)
    /\ UNCHANGED <<users, chats, sessions, daily_earliest, achievement_events,
                   achievement_stats, nstarted, bd, legacy_sessions, wake_reminders, russian_roulette, engine>>

\* on_check_in: storage.award_achievement(key=ACH_STREAK_EARLIEST_7, day=day)
OciAwardStreak7(p) ==
    /\ pc[p] = "oci_award_streak7"
    /\ Award(p, ACH_STREAK_EARLIEST_7, 0)
    /\ Finish(p)
    /\ UNCHANGED <<users, chats, sessions, daily_earliest, streaks, nstarted, bd, legacy_sessions, wake_reminders, russian_roulette, engine>>

\* cmd_zao after a refused check_in: get_open_session -> checkin_inconsistent / checkin_already
ZaoAlready(p) ==
    /\ pc[p] = "zao_already"
    /\ hist' = Append(hist, CheckinReply(p,
                  IF get_open_session(loc[p].chat, loc[p].user, today_key(p)) = 0
                  THEN "checkin_inconsistent" ELSE "checkin_already"))
    /\ Finish(p)
    /\ UNCHANGED <<db, nstarted, bd, legacy_sessions, wake_reminders, russian_roulette, engine>>


\* check_out: day = business_day_key(ts); osess = get_open_session(day=day);
\* not osess -> return False, None, None, None
WanCheckOutRead(p) ==
    /\ pc[p] = "wan_check_out"
    /\ LET sid == get_open_session(loc[p].chat, loc[p].user, today_key(p))
       IN  IF sid = 0
           THEN /\ hist' = Append(hist, Call("check_out", loc[p], "", today_key(p), FALSE, 0, 0))
                /\ IF loc[p].cmd = "wan"
                   THEN Goto(p, "wan_any_open") /\ UNCHANGED loc
                   ELSE Finish(p)
           ELSE /\ loc' = [loc EXCEPT ![p].sid = sid,
                                      ![p].ci = parse_dt(sessions[sid].check_in)]
                /\ Goto(p, "wan_check_out_write")
                /\ UNCHANGED hist
    /\ UNCHANGED <<db, nstarted, bd, legacy_sessions, wake_reminders, russian_roulette, engine>>

\* mutant: the weekday is that of the calendar date of the check-out moment
on_check_out_entry_checkout_day(ci, dur) ==
    LET day == day_key(ci + dur)
    IN  IF is_weekday(day) /\ ontime_window(dur) THEN "oco_get_count"
        ELSE IF is_weekday(day) /\ longday(dur) THEN "oco_award_longday"
        ELSE "idle"

\* the pc on_check_out starts at: ontime_8h first, else longday_12h, else nothing to award
on_check_out_entry(ci, dur) ==
    LET day == business_day_key(wall_clock(ci), CUTOFF_HOUR)
    IN  IF is_weekday(day) /\ ontime_window(dur) THEN "oco_get_count"
        ELSE IF is_weekday(day) /\ longday(dur) THEN "oco_award_longday"
        ELSE "idle"

\* check_out: UPDATE sessions SET check_out WHERE id; return True, ts - check_in_ts, ...
\* cmd_wan: the reply, then on_check_out; a direct caller of check_out gets the result
WanCheckOutWrite(p) ==
    /\ pc[p] = "wan_check_out_write"
    /\ LET l == loc[p]
           co == check_out_value(l.now, l.ci)
           dur == co - l.ci
           entry == on_check_out_entry(l.ci, dur)
       IN  /\ sessions' = [sessions EXCEPT ![l.sid].check_out = isoformat(co)]
           /\ hist' = Append(hist, Call("check_out", l, "", today_key(p), TRUE, dur, l.sid))
           /\ IF l.cmd = "wan" /\ entry # "idle"
              THEN /\ loc' = [loc EXCEPT ![p].dur = dur,
                                         ![p].day = business_day_key(wall_clock(l.ci), CUTOFF_HOUR)]
                   /\ Goto(p, entry)
              ELSE Finish(p)
    /\ UNCHANGED <<users, chats, daily_earliest, streaks, achievement_events,
                   achievement_stats, nstarted, bd, legacy_sessions, wake_reminders, russian_roulette, engine>>

\* on_check_out: storage.get_achievement_count(key=ACH_ONTIME_8H) <= 0
OcoGetCount(p) ==
    /\ pc[p] = "oco_get_count"
    /\ IF get_achievement_count(loc[p].chat, loc[p].user, ACH_ONTIME_8H) <= 0
       THEN Goto(p, "oco_award_ontime") /\ UNCHANGED loc
       ELSE Finish(p)
    /\ UNCHANGED <<db, hist, nstarted, bd, legacy_sessions, wake_reminders, russian_roulette, engine>>

\* on_check_out: storage.award_achievement(key=ACH_ONTIME_8H, day, session_id)
OcoAwardOntime(p) ==
    /\ pc[p] = "oco_award_ontime"
    /\ Award(p, ACH_ONTIME_8H, loc[p].sid)
    /\ Finish(p)
    /\ UNCHANGED <<users, chats, sessions, daily_earliest, streaks, nstarted, bd, legacy_sessions, wake_reminders, russian_roulette, engine>>

\* on_check_out: storage.award_achievement(key=ACH_LONGDAY_12H, day, session_id)
OcoAwardLongday(p) ==
    /\ pc[p] = "oco_award_longday"
    /\ Award(p, ACH_LONGDAY_12H, loc[p].sid)
    /\ Finish(p)
    /\ UNCHANGED <<users, chats, sessions, daily_earliest, streaks, nstarted, bd, legacy_sessions, wake_reminders, russian_roulette, engine>>

\* mutant: cmd_wan does not look for a stale open session
cross_day_unchecked(c, u, day) == FALSE

\* TRUE when the newest open session of (c, u) is of another business day than day
cross_day(c, u, day) ==
    LET any_open == get_open_session(c, u, NULL)
    IN  /\ any_open # 0
        /\ business_day_key(wall_clock(parse_dt(sessions[any_open].check_in)), CUTOFF_HOUR) # day

\* the message cmd_wan renders and sends after a failed check_out
Reply(p, message) == Call("reply", loc[p], message, today_key(p), FALSE, 0, 0)

\* cmd_wan after a failed check_out: any_open = get_open_session() -> checkout_cross_day
WanAnyOpen(p) ==
    /\ pc[p] = "wan_any_open"
    /\ IF cross_day(loc[p].chat, loc[p].user, today_key(p))
       THEN /\ hist' = Append(hist, Reply(p, "checkout_cross_day"))
            /\ Finish(p)
       ELSE Goto(p, "wan_today_exists") /\ UNCHANGED <<loc, hist>>
    /\ UNCHANGED <<db, nstarted, bd, legacy_sessions, wake_reminders, russian_roulette, engine>>

\* cmd_wan: session_today_exists -> day_ended, else checkout_not_checked_in
WanTodayExists(p) ==
    /\ pc[p] = "wan_today_exists"
    /\ hist' = Append(hist, Reply(p, IF session_today_exists(loc[p].chat, loc[p].user,
                                                              today_key(p))
                                      THEN "day_ended" ELSE "checkout_not_checked_in"))
    /\ Finish(p)
    /\ UNCHANGED <<db, nstarted, bd, legacy_sessions, wake_reminders, russian_roulette, engine>>

\* ------------------------------------------------------------ specification
\* the engine get_storage builds when no database_url is set: sqlite, whose TEXT
\* columns keep the offset of the configured time zone
DefaultEngine == [dialect |-> "sqlite", timezone |-> 8 * SecPerHour]

\* the storages db.py (behind SQLiteStorage) and PostgresStorage with no session yet
NoLegacy == [db |-> <<>>, postgres_storage |-> <<>>]

NoInput == [a |-> 0, b |-> 0, cutoff_hour |-> 0, key_a |-> NULL, key_b |-> NULL]

\* The database after user 1 has been the earliest of chat 1 on the k business days
\* -(k+1) .. -2, each with a session from 10:00 to 11:00; k = 0 is the new database.
PriorStreak == STREAK_PERIOD - 1
PriorStreaks == {0, PriorStreak, 2 * STREAK_PERIOD - 1}
prior_day(i, k) == i - (k + 2)
prior_sessions(k) ==
    [i \in 1..k |->
        [chat_id |-> 1, user_id |-> 1, session_day |-> date_isoformat(prior_day(i, k)),
         check_in |-> isoformat(prior_day(i, k) * SecPerDay + HM(10, 0)),
         check_out |-> isoformat(prior_day(i, k) * SecPerDay + HM(11, 0))]]
prior_daily_earliest(k) ==
    {daily_earliest_row(1, date_isoformat(prior_day(i, k)), 1, i,
                        prior_day(i, k) * SecPerDay + HM(10, 0)) : i \in 1..k}
prior_events(k) ==
    [i \in 1..k |-> event_row(1, 1, ACH_DAILY_EARLIEST, date_isoformat(prior_day(i, k)), 0)]

InitDb(k) ==
    /\ users = IF k = 0 THEN {} ELSE {1}
    /\ chats = IF k = 0 THEN {} ELSE {1}
    /\ sessions = prior_sessions(k)
    /\ daily_earliest = prior_daily_earliest(k)
    /\ streaks = IF k = 0 THEN {}
                 ELSE {streak_row(1, 1, "earliest", date_isoformat(prior_day(k, k)), k)}
    /\ achievement_events = prior_events(k)
    /\ achievement_stats = IF k = 0 THEN {}
                           ELSE {[chat_id |-> 1, user_id |-> 1,
                                  key |-> ACH_DAILY_EARLIEST, count |-> k]}

\* no handler running, on the engine e
InitProcsOn(e) ==
    /\ pc = [p \in Procs |-> "idle"]
    /\ loc = [p \in Procs |-> Idle]
    /\ hist = <<>>
    /\ nstarted = 0
    /\ bd = NoInput
    /\ legacy_sessions = NoLegacy
    /\ wake_reminders = {}
    /\ russian_roulette = {}
    /\ engine = e

InitProcs == InitProcsOn(DefaultEngine)

Init == InitProcs /\ \E k \in PriorStreaks : InitDb(k)

\* the storage call or the reply the handler is about to make raises (a storage
\* failure, a send error); nothing catches it and the handler ends there
Raise(p) ==
    /\ pc[p] # "idle"
    /\ Finish(p)
    /\ UNCHANGED <<db, hist, nstarted, bd, legacy_sessions, wake_reminders, russian_roulette, engine>>

Step(p) ==
    \/ Raise(p)
    \/ ZaoCompleted(p)
    \/ ZaoCheckIn(p)
    \/ ZaoGetOpen(p)
    \/ ZaoPosition(p)
    \/ OciSetDailyEarliest(p)
    \/ OciAwardDaily(p)
    \/ StreakRead(p)
    \/ StreakWrite(p)
    \/ OciAwardStreak7(p)
    \/ ZaoAlready(p)
    \/ WanCheckOutRead(p)
    \/ WanCheckOutWrite(p)
    \/ OcoGetCount(p)
    \/ OcoAwardOntime(p)
    \/ OcoAwardLongday(p)
    \/ WanAnyOpen(p)
    \/ WanTodayExists(p)

Next ==
    \E p \in Procs :
        \/ \E cmd \in {"zao", "wan"}, c \in Chats, u \in Users, ts \in EventTimes :
              Start(p, cmd, c, u, ts)
        \/ Step(p)

Spec == Init /\ [][Next]_vars

\* the same handlers, one event at a time
NextSeq ==
    \E p \in Procs :
        \/ \E cmd \in {"zao", "wan"}, c \in Chats, u \in Users, ts \in EventTimes :
              StartSeq(p, cmd, c, u, ts)
        \/ Step(p)

SpecSeq == Init /\ [][NextSeq]_vars

\* ------------------------------------------- the handlers on either engine
\* the engines _make_engine can build: sqlite, or postgresql, whose sessions run in
\* the time zone the server or the role is configured with (the code sets none):
\* UTC, or the zone the bot is configured with
Engines == {DefaultEngine,
            [dialect |-> "postgresql", timezone |-> 0],
            [dialect |-> "postgresql", timezone |-> TZ_OFFSET]}

InitKey == \E e \in Engines : InitProcsOn(e) /\ \E k \in PriorStreaks : InitDb(k)

StartKey(p, cmd, c, u, ts) ==
    /\ \A q \in Procs : pc[q] = "idle" /\ q >= p
    /\ Begin(p, cmd, c, u, ts, MaxKeyEvents)

NextKey ==
    \E p \in Procs :
        \/ \E cmd \in {"zao", "wan"}, c \in Chats, u \in Users, ts \in EventTimes :
              StartKey(p, cmd, c, u, ts)
        \/ Step(p)

SpecKey == InitKey /\ [][NextKey]_vars

\* ------------------------------------------- the handlers in two chats
\* updates of one user in the chats 1 and 2, handled one after the other; chat 1 may
\* have a history (Init), chat 2 has none
TwoChats == {1, 2}
ChatUsers == {1}
ChatTimes == {HM(3, 30), HM(10, 0), HM(18, 0), SecPerDay + HM(3, 30)}

StartChat(p, cmd, c, u, ts) ==
    /\ \A q \in Procs : pc[q] = "idle" /\ q >= p
    /\ Begin(p, cmd, c, u, ts, MaxChatEvents)

NextChats ==
    \E p \in Procs :
        \/ \E cmd \in {"zao", "wan"}, c \in TwoChats, u \in ChatUsers, ts \in ChatTimes :
              StartChat(p, cmd, c, u, ts)
        \/ Step(p)

SpecChats == Init /\ [][NextChats]_vars


\* ------------------------------------------- business-day calculator alone
\* two timestamps around every full hour of the days 0..MaxClockDay, and a cutoff hour
ClockTimes == {d * SecPerDay + h * SecPerHour + e :
                 d \in 0..MaxClockDay, h \in 0..23, e \in {0, SecPerHour - 1}}
CutoffHours == {0, 4, 12, 23}

InitDay ==
    /\ InitDb(0)
    /\ pc = [p \in Procs |-> "idle"]
    /\ loc = [p \in Procs |-> Idle]
    /\ hist = <<>>
    /\ nstarted = 0
    /\ legacy_sessions = NoLegacy
    /\ wake_reminders = {}
    /\ russian_roulette = {}
    /\ engine = DefaultEngine
    /\ \E a \in ClockTimes, b \in ClockTimes, h \in CutoffHours :
          bd = [a |-> a, b |-> b, cutoff_hour |-> h, key_a |-> NULL, key_b |-> NULL]

\* business_day_key applied to both timestamps
ApplyDay ==
    /\ bd.key_a = NULL
    /\ bd' = [bd EXCEPT !.key_a = business_day_key(bd.a, bd.cutoff_hour),
                        !.key_b = business_day_key(bd.b, bd.cutoff_hour)]
    /\ UNCHANGED <<db, pc, loc, hist, nstarted, legacy_sessions, wake_reminders, russian_roulette, engine>>

SpecDay == InitDay /\ [][ApplyDay]_vars

\* ------------------------------------------------- update_streak called directly
\* a string that is no ISO date
NotIso == <<0, 0>>
StreakDays == {date_isoformat(d) : d \in 0..(MaxDay + 1)} \cup {NotIso}

InitStreak ==
    /\ InitProcs
    /\ users = Users
    /\ chats = Chats
    /\ sessions = <<>>
    /\ daily_earliest = {}
    /\ streaks = {}
    /\ achievement_events = <<>>
    /\ achievement_stats = {}

\* a client calls update_streak(chat_id, user_id, key="earliest", day)
StreakCall(p, c, u, day) ==
    /\ pc[p] = "idle"
    /\ \A q \in Procs : q < p => pc[q] # "idle"
    /\ nstarted < MaxCalls
    /\ nstarted' = nstarted + 1
    /\ loc' = [loc EXCEPT ![p] = [Idle EXCEPT !.cmd = "update_streak", !.chat = c,
                                               !.user = u, !.day = day]]
    /\ Goto(p, "streak_read")
    /\ UNCHANGED <<db, hist, bd, legacy_sessions, wake_reminders, russian_roulette, engine>>

NextStreak ==
    \E p \in Procs :
        \/ \E c \in Chats, u \in Users, day \in StreakDays : StreakCall(p, c, u, day)
        \/ StreakRead(p)
        \/ StreakWrite(p)

SpecStreak == InitStreak /\ [][NextStreak]_vars


\* ------------------------------------------------- a backlog around the cutoff
\* User 1 has an open session since Thursday (day -1) 20:00.  The replicas handle a
\* backlog of /zao and /wan updates sent on Friday at 03:59 (business day Thursday),
\* 04:00 and 12:00; event_time is the time the message was sent.
OntimeTimes == {HM(3, 59), HM(4, 0), HM(12, 0)}

InitOntime ==
    /\ InitProcs
    /\ users = {1}
    /\ chats = {1}
    /\ sessions = <<session_row(1, 1, HM(20, 0) - SecPerDay)>>
    /\ daily_earliest = {}
    /\ streaks = {}
    /\ achievement_events = <<>>
    /\ achievement_stats = {}

StartOntime(p, cmd, ts) ==
    /\ \A q \in Procs : q < p => pc[q] # "idle"
    /\ Begin(p, cmd, 1, 1, ts, MaxOntimeEvents)

NextOntime ==
    \E p \in Procs :
        \/ \E cmd \in {"zao", "wan"}, ts \in OntimeTimes : StartOntime(p, cmd, ts)
        \/ Raise(p)
        \/ ZaoCompleted(p)
        \/ ZaoCheckIn(p)
        \/ ZaoGetOpen(p)
        \/ ZaoPosition(p)
        \/ OciSetDailyEarliest(p)
        \/ OciAwardDaily(p)
        \/ StreakRead(p)
        \/ StreakWrite(p)
        \/ ZaoAlready(p)
        \/ WanCheckOutRead(p)
        \/ WanCheckOutWrite(p)
        \/ OcoGetCount(p)
        \/ OcoAwardOntime(p)
        \/ WanAnyOpen(p)
        \/ WanTodayExists(p)

SpecOntime == InitOntime /\ [][NextOntime]_vars

\* ------------------------- storage and achievement functions called directly
\* Clients call check_in, check_out, award_achievement and on_check_out on a database
\* where user 1 and chat 1 are known and user 1 has an open session since Friday
\* (day 0) 10:00; user 2 was never upserted.  The check-in times are Friday 03:30
\* (business day Thursday), Friday 18:00, Saturday 10:00 and Monday 03:30 (business day
\* Sunday).
ApiTimes == {HM(3, 30), HM(18, 0), SecPerDay + HM(10, 0), 3 * SecPerDay + HM(3, 30)}
Durations == {HM(7, 59) - 1, HM(7, 59), HM(8, 1), HM(8, 1) + 1, HM(12, 0), HM(12, 0) + 1,
              HM(15, 0)}
AchKeys == {ACH_DAILY_EARLIEST, ACH_STREAK_EARLIEST_7, ACH_ONTIME_8H, ACH_LONGDAY_12H}

InitApi ==
    /\ InitProcs
    /\ users = {1}
    /\ chats = {1}
    /\ sessions = <<session_row(1, 1, HM(10, 0))>>
    /\ daily_earliest = {}
    /\ streaks = {}
    /\ achievement_events = <<>>
    /\ achievement_stats = {}

\* a client slot takes the next call
ApiBegin(p) ==
    /\ pc[p] = "idle"
    /\ \A q \in Procs : q < p => pc[q] # "idle"
    /\ nstarted < MaxApiCalls
    /\ nstarted' = nstarted + 1

\* storage.check_in(chat_id, user_id, ts): one INSERT, True or (IntegrityError) False
ApiCheckIn(p, c, u, ts) ==
    /\ ApiBegin(p)
    /\ LET ok == check_in_inserts(c, u, ts)
           l == [Idle EXCEPT !.cmd = "check_in", !.chat = c, !.user = u, !.now = ts]
       IN  /\ sessions' = sessions_after_check_in(c, u, ts)
           /\ hist' = Append(hist, Call("check_in", l, "", business_day_key(ts, CUTOFF_HOUR),
                                        ok, 0, IF ok THEN Len(sessions) + 1 ELSE 0))
    /\ UNCHANGED <<users, chats, daily_earliest, streaks, achievement_events,
                   achievement_stats, pc, loc, bd, legacy_sessions, wake_reminders, russian_roulette, engine>>

\* storage.check_out(chat_id, user_id, ts): the read and the write follow as steps
ApiCheckOut(p, c, u, ts) ==
    /\ ApiBegin(p)
    /\ loc' = [loc EXCEPT ![p] = [Idle EXCEPT !.cmd = "check_out", !.chat = c,
                                               !.user = u, !.now = ts]]
    /\ Goto(p, "wan_check_out")
    /\ UNCHANGED <<db, hist, bd, legacy_sessions, wake_reminders, russian_roulette, engine>>

\* storage.award_achievement(chat_id, user_id, key, day, session_id): the event INSERT
\* meets a foreign key or a unique index (False) or commits with the stat upsert (True)
ApiAward(p, c, u, k, d, sid) ==
    /\ ApiBegin(p)
    /\ LET fk == fk_chat_user(c, u) /\ (sid = 0 \/ sid \in DOMAIN sessions)
           ok == fk /\ award_inserts(c, u, k, d, sid)
           l == [Idle EXCEPT !.cmd = "award_achievement", !.chat = c, !.user = u]
       IN  /\ IF fk THEN award_achievement(c, u, k, d, sid)
                    ELSE UNCHANGED <<achievement_events, achievement_stats>>
           /\ hist' = Append(hist, Call("award_achievement", l, k, d, ok, 0, sid))
    /\ UNCHANGED <<users, chats, sessions, daily_earliest, streaks, pc, loc, bd, legacy_sessions, wake_reminders, russian_roulette, engine>>

\* achievements.on_check_out(chat_id, user_id, session_id, check_in_ts, duration) for a
\* stored session; the count read and the awards follow as steps
ApiOnCheckOut(p, sid, dur) ==
    /\ ApiBegin(p)
    /\ LET r == sessions[sid]
           ci == parse_dt(r.check_in)
           l == [Idle EXCEPT !.cmd = "on_check_out", !.chat = r.chat_id, !.user = r.user_id,
                             !.sid = sid, !.ci = ci, !.dur = dur,
                             !.day = business_day_key(ci, CUTOFF_HOUR)]
           entry == on_check_out_entry(ci, dur)
       IN  /\ hist' = Append(hist, Call("on_check_out", l, "", l.day, TRUE, dur, sid))
           /\ IF entry # "idle"
              THEN loc' = [loc EXCEPT ![p] = l] /\ Goto(p, entry)
              ELSE UNCHANGED <<pc, loc>>
    /\ UNCHANGED <<db, bd, legacy_sessions, wake_reminders, russian_roulette, engine>>

NextApi ==
    \E p \in Procs :
        \/ \E c \in Chats, u \in Users, ts \in ApiTimes : ApiCheckIn(p, c, u, ts)
        \/ \E c \in Chats, u \in Users, ts \in ApiTimes : ApiCheckOut(p, c, u, ts)
        \/ \E c \in Chats, u \in Users, k \in {ACH_DAILY_EARLIEST, ACH_STREAK_EARLIEST_7} :
              ApiAward(p, c, u, k, date_isoformat(0), 0)
        \/ \E c \in Chats, u \in Users, k \in {ACH_ONTIME_8H, ACH_LONGDAY_12H},
              sid \in DOMAIN sessions : ApiAward(p, c, u, k, date_isoformat(0), sid)
        \/ \E sid \in DOMAIN sessions, dur \in Durations : ApiOnCheckOut(p, sid, dur)
        \/ WanCheckOutRead(p)
        \/ WanCheckOutWrite(p)
        \/ OcoGetCount(p)
        \/ OcoAwardOntime(p)
        \/ OcoAwardLongday(p)

SpecApi == InitApi /\ [][NextApi]_vars


\* ----------------- check_in, check_out and leaderboard called on every storage alike
\* One client makes the same sequence of calls on SQLAlchemyStorage, on db.py (behind
\* SQLiteStorage) and on PostgresStorage, each starting from an empty sessions table
\* with every user and chat upserted.  The times are Friday 10:00 and 18:00 and
\* Saturday 03:30 (still business day Friday) and 10:00.
BoardChats == {1, 2}
BoardTimes == {HM(10, 0), HM(18, 0), SecPerDay + HM(3, 30), SecPerDay + HM(10, 0)}
\* 0 stands for leaderboard_global
BoardScopes == {0, 1}
Modes == {"today", "all"}

InitBoard ==
    /\ InitProcs
    /\ users = Users
    /\ chats = BoardChats
    /\ sessions = <<>>
    /\ daily_earliest = {}
    /\ streaks = {}
    /\ achievement_events = <<>>
    /\ achievement_stats = {}

\* a finished call on the storage (class, and dialect where it matters) impl; call is
\* its number in the sequence of calls
BoardCall(op, impl, c, u, ts, mode, ok, val, sid) ==
    [call |-> nstarted + 1, op |-> op, impl |-> impl, chat |-> c, user |-> u, ts |-> ts,
     key |-> mode, day |-> business_day_key(ts, CUTOFF_HOUR), ok |-> ok, val |-> val, sid |-> sid]

BoardBegin ==
    /\ nstarted < MaxBoardCalls
    /\ nstarted' = nstarted + 1

\* check_in(chat_id, user_id, ts) on the three storages
BoardCheckIn(c, u, ts) ==
    /\ BoardBegin
    /\ sessions' = sessions_after_check_in(c, u, ts)
    /\ legacy_sessions' =
          [db |-> legacy_after_check_in(legacy_sessions.db, c, u, ts),
           postgres_storage |-> legacy_after_check_in(legacy_sessions.postgres_storage, c, u, ts)]
    /\ hist' = hist \o
          <<BoardCall("check_in", "SQLAlchemyStorage", c, u, ts, "",
                      check_in_inserts(c, u, ts), 0, 0),
            BoardCall("check_in", "db", c, u, ts, "",
                      legacy_check_in_inserts(legacy_sessions.db, c, u), 0, 0),
            BoardCall("check_in", "PostgresStorage", c, u, ts, "",
                      legacy_check_in_inserts(legacy_sessions.postgres_storage, c, u), 0, 0)>>
    /\ UNCHANGED <<users, chats, daily_earliest, streaks, achievement_events,
                   achievement_stats, pc, loc, bd, wake_reminders, russian_roulette, engine>>

\* what check_out(chat_id, user_id, ts) of storage impl on table tbl returns
BoardCheckOutCall(impl, tbl, c, u, ts) ==
    BoardCall("check_out", impl, c, u, ts, "", check_out_target(impl, tbl, c, u, ts) # 0,
              check_out_duration(impl, tbl, c, u, ts), check_out_target(impl, tbl, c, u, ts))

\* check_out(chat_id, user_id, ts) on the three storages
BoardCheckOut(c, u, ts) ==
    /\ BoardBegin
    /\ sessions' = table_after_check_out("SQLAlchemyStorage", sessions, c, u, ts)
    /\ legacy_sessions' =
          [db |-> table_after_check_out("db", legacy_sessions.db, c, u, ts),
           postgres_storage |->
               table_after_check_out("PostgresStorage", legacy_sessions.postgres_storage, c, u, ts)]
    /\ hist' = hist \o
          <<BoardCheckOutCall("SQLAlchemyStorage", sessions, c, u, ts),
            BoardCheckOutCall("db", legacy_sessions.db, c, u, ts),
            BoardCheckOutCall("PostgresStorage", legacy_sessions.postgres_storage, c, u, ts)>>
    /\ UNCHANGED <<users, chats, daily_earliest, streaks, achievement_events,
                   achievement_stats, pc, loc, bd, wake_reminders, russian_roulette, engine>>

\* leaderboard(chat_id, mode, now), or leaderboard_global(mode, now) for c = 0, on
\* every implementation; SQLAlchemyStorage in both dialects
BoardLeaderboard(c, mode, now) ==
    /\ BoardBegin
    /\ \E res \in [LeaderboardImpls -> UNION {leaderboard(i, c, mode, now) : i \in LeaderboardImpls}] :
          /\ \A i \in LeaderboardImpls : res[i] \in leaderboard(i, c, mode, now)
          /\ hist' = hist \o
                <<BoardCall("leaderboard", [class |-> "SQLAlchemyStorage", dialect |-> "sqlite"],
                            c, 0, now, mode, TRUE,
                            res[[class |-> "SQLAlchemyStorage", dialect |-> "sqlite"]], 0),
                  BoardCall("leaderboard", [class |-> "SQLAlchemyStorage", dialect |-> "postgresql"],
                            c, 0, now, mode, TRUE,
                            res[[class |-> "SQLAlchemyStorage", dialect |-> "postgresql"]], 0),
                  BoardCall("leaderboard", [class |-> "db", dialect |-> "sqlite"],
                            c, 0, now, mode, TRUE,
                            res[[class |-> "db", dialect |-> "sqlite"]], 0),
                  BoardCall("leaderboard", [class |-> "PostgresStorage", dialect |-> "postgresql"],
                            c, 0, now, mode, TRUE,
                            res[[class |-> "PostgresStorage", dialect |-> "postgresql"]], 0)>>
    /\ UNCHANGED <<db, pc, loc, bd, legacy_sessions, wake_reminders, russian_roulette, engine>>

NextBoard ==
    \/ \E c \in BoardChats, u \in Users, ts \in BoardTimes : BoardCheckIn(c, u, ts)
    \/ \E c \in BoardChats, u \in Users, ts \in BoardTimes : BoardCheckOut(c, u, ts)
    \/ \E c \in BoardScopes, mode \in Modes, now \in BoardTimes : BoardLeaderboard(c, mode, now)

SpecBoard == InitBoard /\ [][NextBoard]_vars


\* ------------------------------------------- today_checkin_position called directly
\* Three users check in to chat 1 at times of Friday and Saturday, in any order of
\* the timestamps, and a client asks for the position of a stored session, passing
\* the session's own id, check_in and session_day.
PosUsers == {1, 2, 3}
PosTimes == {HM(10, 0), HM(18, 0), SecPerDay + HM(3, 30), SecPerDay + HM(10, 0)}

InitPos ==
    /\ InitProcs
    /\ users = PosUsers
    /\ chats = {1}
    /\ sessions = <<>>
    /\ daily_earliest = {}
    /\ streaks = {}
    /\ achievement_events = <<>>
    /\ achievement_stats = {}

PosCheckIn(p, u, ts) ==
    /\ Len(hist) < MaxPosCalls
    /\ ApiCheckIn(p, 1, u, ts)

\* storage.today_checkin_position(chat_id, session_id, check_in, day) for session sid
PosQuery(sid) ==
    /\ Len(hist) < MaxPosCalls
    /\ LET r == sessions[sid]
           l == [Idle EXCEPT !.cmd = "today_checkin_position", !.chat = r.chat_id,
                             !.user = r.user_id, !.now = parse_dt(r.check_in)]
       IN  hist' = Append(hist, Call("today_checkin_position", l, "", r.session_day, TRUE,
                                     today_checkin_position(r.chat_id, sid, parse_dt(r.check_in),
                                                            r.session_day), sid))
    /\ UNCHANGED <<db, pc, loc, nstarted, bd, legacy_sessions, wake_reminders, russian_roulette, engine>>

NextPos ==
    \/ \E p \in Procs, u \in PosUsers, ts \in PosTimes : PosCheckIn(p, u, ts)
    \/ \E sid \in DOMAIN sessions : PosQuery(sid)

SpecPos == InitPos /\ [][NextPos]_vars


\* ------------------------------------------------ streak_rank_global called directly
\* Clients call update_streak for users in two chats, one call after the other, and
\* at some point streak_rank_global(key="earliest", limit) on every implementation.
RankLimits == {1, 20}

InitRank ==
    /\ InitProcs
    /\ users = Users
    /\ chats = BoardChats
    /\ sessions = <<>>
    /\ daily_earliest = {}
    /\ streaks = {}
    /\ achievement_events = <<>>
    /\ achievement_stats = {}

RankUpdateStreak(p, c, u, day) ==
    /\ \A q \in Procs : pc[q] = "idle"
    /\ StreakCall(p, c, u, day)

RankCall(impl, k, limit) ==
    [op |-> "streak_rank_global", impl |-> impl, key |-> k, limit |-> limit,
     val |-> streak_rank_global(impl, k, limit)]

RankQuery(k, limit) ==
    /\ \A q \in Procs : pc[q] = "idle"
    /\ \A i \in DOMAIN hist : hist[i].op # "streak_rank_global"
    /\ hist' = hist \o
          <<RankCall([class |-> "SQLAlchemyStorage", dialect |-> "sqlite"], k, limit),
            RankCall([class |-> "SQLAlchemyStorage", dialect |-> "postgresql"], k, limit),
            RankCall([class |-> "db", dialect |-> "sqlite"], k, limit)>>
    /\ UNCHANGED <<db, pc, loc, nstarted, bd, legacy_sessions, wake_reminders, russian_roulette, engine>>

NextRank ==
    \/ \E p \in Procs, c \in BoardChats, u \in Users, day \in StreakDays :
          RankUpdateStreak(p, c, u, day)
    \/ \E p \in Procs : StreakRead(p)
    \/ \E p \in Procs : StreakWrite(p)
    \/ \E limit \in RankLimits : RankQuery("earliest", limit)

SpecRank == InitRank /\ [][NextRank]_vars


\* ------------------------------------------------------------ wake reminders
\* the attributes of config.Settings: the dataclass fields and the property tzinfo
SettingsAttributes ==
    {"bot_token", "tz_name", "db_path", "database_url", "log_level", "proxy_url",
     "proxy_username", "proxy_password", "config_path", "tzinfo"}

\* cmd_wake: next_trigger = now.replace(hour, minute, second=0), a day later when that
\* is not after now; wake_time is <<hour, minute>>
wake_next_trigger(now, wake_time) ==
    LET t == date(now) * SecPerDay + HM(wake_time[1], wake_time[2])
    IN  IF t <= now THEN t + SecPerDay ELSE t

\* INSERT INTO wake_reminders: the id column counts the rows ever inserted
created_reminders == Cardinality({i \in DOMAIN hist : hist[i].op = "create_reminder"})

reminder_row(c, u, wake_time, next_trigger, repeat) ==
    [id |-> created_reminders + 1, chat_id |-> c, user_id |-> u, wake_time |-> wake_time,
     next_trigger |-> isoformat(next_trigger), repeat |-> repeat, enabled |-> TRUE]

\* get_pending_reminders: WHERE enabled AND next_trigger <= :now
get_pending_reminders(now) ==
    {r \in wake_reminders : r.enabled /\ ~iso_lt(isoformat(now), r.next_trigger)}

WakeLocal(c, u, now) == [Idle EXCEPT !.chat = c, !.user = u, !.now = now]

\* the rows after the loop of check_wake_reminders over pending, where the sends of
\* the reminders in failed raised: a sent repeating reminder moves a day on, a sent
\* one-shot reminder is deleted, a failed one is left as it was
reminders_after_poll(pending, failed) ==
    {r \in wake_reminders : r \notin pending \/ r \in failed \/ r.repeat}
    \cup {[r EXCEPT !.next_trigger = isoformat(parse_dt(r.next_trigger) + SecPerDay)] :
             r \in {x \in pending \ failed : x.repeat}}

\* the send_message calls of one poll, in some order
RECURSIVE sends_of(_, _, _)
sends_of(pending, failed, now) ==
    IF pending = {} THEN <<>>
    ELSE LET r == CHOOSE x \in pending :
                     \A y \in pending : ~iso_lt(y.next_trigger, x.next_trigger)
         IN  <<Call("send_message", WakeLocal(r.chat_id, r.user_id, now), "", NULL,
                    r \notin failed, r.id, 0)>>
             \o sends_of(pending \ {r}, failed, now)

WakeBegin ==
    /\ nstarted < MaxWakeCalls
    /\ nstarted' = nstarted + 1

\* cmd_wake HH:MM: _upsert, create_reminder(repeat=False)
WakeSet(c, u, wake_time, now) ==
    /\ WakeBegin
    /\ users' = users \cup {u}
    /\ chats' = chats \cup {c}
    /\ wake_reminders' = wake_reminders \cup
          {reminder_row(c, u, wake_time, wake_next_trigger(now, wake_time), FALSE)}
    /\ hist' = Append(hist, Call("create_reminder", WakeLocal(c, u, now), "", NULL, TRUE,
                                 created_reminders + 1, 0))
    /\ UNCHANGED <<sessions, daily_earliest, streaks, achievement_events, achievement_stats,
                   pc, loc, bd, legacy_sessions, russian_roulette, engine>>

\* cmd_wake cancel: _upsert, delete_user_reminders
WakeCancel(c, u, now) ==
    /\ WakeBegin
    /\ users' = users \cup {u}
    /\ chats' = chats \cup {c}
    /\ wake_reminders' = {r \in wake_reminders : ~(r.chat_id = c /\ r.user_id = u)}
    /\ hist' = Append(hist, Call("delete_user_reminders", WakeLocal(c, u, now), "", NULL,
                                 TRUE, 0, 0))
    /\ UNCHANGED <<sessions, daily_earliest, streaks, achievement_events, achievement_stats,
                   pc, loc, bd, legacy_sessions, russian_roulette, engine>>

\* check_wake_reminders, run by the job queue: now = datetime.now(tz=deps.settings.tz)
\* raises AttributeError when Settings has no attribute tz, before anything is read or
\* sent; otherwise the pending reminders are sent one by one, a send that raises is
\* logged and skipped
check_wake_reminders(now) ==
    /\ WakeBegin
    /\ IF "tz" \notin SettingsAttributes
       THEN /\ hist' = Append(hist, Call("check_wake_reminders", WakeLocal(0, 0, now), "",
                                         NULL, FALSE, 0, 0))
            /\ UNCHANGED wake_reminders
       ELSE \E failed \in SUBSET get_pending_reminders(now) :
               /\ wake_reminders' = reminders_after_poll(get_pending_reminders(now), failed)
               /\ hist' = hist \o sends_of(get_pending_reminders(now), failed, now)
                               \o <<Call("check_wake_reminders", WakeLocal(0, 0, now), "",
                                         NULL, TRUE, 0, 0)>>
    /\ UNCHANGED <<db, pc, loc, bd, legacy_sessions, russian_roulette, engine>>

WakeTimes == {<<7, 0>>, <<7, 30>>}
WakeClock == {HM(6, 0), HM(7, 0), HM(7, 1), SecPerDay + HM(7, 0)}

InitWake ==
    /\ InitProcs
    /\ InitDb(0)

NextWake ==
    \/ \E c \in Chats, u \in Users, wt \in WakeTimes, now \in WakeClock : WakeSet(c, u, wt, now)
    \/ \E c \in Chats, u \in Users, now \in WakeClock : WakeCancel(c, u, now)
    \/ \E now \in WakeClock : check_wake_reminders(now)

SpecWake == InitWake /\ [][NextWake]_vars

\* ------------------------------------------------------- russian roulette
\* get_active_roulette: SELECT ... FROM russian_roulette WHERE chat_id; NULL for None,
\* else <<chambers, bullet_position, current_position>>
get_active_roulette(c) ==
    IF \E r \in russian_roulette : r.chat_id = c
    THEN LET r == CHOOSE r \in russian_roulette : r.chat_id = c
         IN  <<r.chambers, r.bullet_position, r.current_position>>
    ELSE NULL

roulette_row(c, chambers, bullet_position, created_by) ==
    [chat_id |-> c, chambers |-> chambers, bullet_position |-> bullet_position,
     current_position |-> 0, created_by |-> created_by]

\* update_roulette_position: UPDATE russian_roulette SET current_position WHERE chat_id
update_roulette_position(c, position) ==
    {IF r.chat_id = c THEN [r EXCEPT !.current_position = position] ELSE r :
        r \in russian_roulette}

\* delete_roulette: DELETE FROM russian_roulette WHERE chat_id
delete_roulette(c) == {r \in russian_roulette : r.chat_id # c}

\* cmd_gun: chambers = int(args[0]); 2 <= chambers <= 20
valid_chambers(args) == 2 <= args[1] /\ args[1] <= 20

\* the arguments of /gun in the model: none (pull the trigger), or a chamber count
GunArgs == {<<>>, <<1>>, <<2>>, <<3>>}

\* an update /gun arrives: _upsert; a chamber count out of range is answered at once
GunBegin(p, args, c, u) ==
    /\ pc[p] = "idle"
    /\ \A q \in Procs : q < p => pc[q] # "idle"
    /\ nstarted < MaxGunEvents
    /\ nstarted' = nstarted + 1
    /\ users' = users \cup {u}
    /\ chats' = chats \cup {c}
    /\ IF args # <<>> /\ ~valid_chambers(args)
       THEN UNCHANGED <<pc, loc>>
       ELSE /\ loc' = [loc EXCEPT ![p] = [Idle EXCEPT !.cmd = "gun", !.chat = c,
                                                      !.user = u, !.args = args]]
            /\ Goto(p, IF args # <<>> THEN "gun_existing" ELSE "gun_get_active")
    /\ UNCHANGED <<sessions, daily_earliest, streaks, achievement_events,
                   achievement_stats, hist, bd, legacy_sessions, wake_reminders,
                   russian_roulette, engine>>

\* /gun n: existing = get_active_roulette(...) -> reply that a gun is already spinning
GunExisting(p) ==
    /\ pc[p] = "gun_existing"
    /\ IF get_active_roulette(loc[p].chat) # NULL
       THEN Finish(p)
       ELSE Goto(p, "gun_create") /\ UNCHANGED loc
    /\ UNCHANGED <<db, hist, nstarted, bd, legacy_sessions, wake_reminders,
                   russian_roulette, engine>>

\* /gun n: bullet_position = random.randint(1, chambers); create_roulette(...): the
\* INSERT meets the primary key chat_id and raises, or commits
GunCreate(p) ==
    /\ pc[p] = "gun_create"
    /\ \E bullet_position \in 1..loc[p].args[1] :
          LET l == loc[p]
              ok == get_active_roulette(l.chat) = NULL
          IN  /\ russian_roulette' =
                    IF ok THEN russian_roulette \cup
                               {roulette_row(l.chat, l.args[1], bullet_position, l.user)}
                    ELSE russian_roulette
              /\ hist' = Append(hist, Call("create_roulette", l, "", NULL, ok,
                                           bullet_position, 0))
    /\ Finish(p)
    /\ UNCHANGED <<db, nstarted, bd, legacy_sessions, wake_reminders, engine>>

\* /gun: game = get_active_roulette(...); not game -> reply that nothing is loaded
GunGetActive(p) ==
    /\ pc[p] = "gun_get_active"
    /\ LET game == get_active_roulette(loc[p].chat)
       IN  IF game = NULL
           THEN Finish(p)
           ELSE /\ loc' = [loc EXCEPT ![p].game = game]
                /\ Goto(p, "gun_record")
    /\ UNCHANGED <<db, hist, nstarted, bd, legacy_sessions, wake_reminders,
                   russian_roulette, engine>>

\* /gun: new_position = game.current_position + 1; is_shot = new_position ==
\* game.bullet_position; record_roulette_attempt(...)
GunRecord(p) ==
    /\ pc[p] = "gun_record"
    /\ LET new_position == loc[p].game[3] + 1
           is_shot == new_position = loc[p].game[2]
       IN  /\ hist' = Append(hist, Call("record_roulette_attempt", loc[p],
                                        IF is_shot THEN "shot" ELSE "safe", NULL, TRUE,
                                        new_position, 0))
           /\ Goto(p, IF is_shot THEN "gun_delete" ELSE "gun_update")
    /\ UNCHANGED <<db, loc, nstarted, bd, legacy_sessions, wake_reminders,
                   russian_roulette, engine>>

\* /gun, shot: delete_roulette(chat_id)
GunDelete(p) ==
    /\ pc[p] = "gun_delete"
    /\ russian_roulette' = delete_roulette(loc[p].chat)
    /\ Finish(p)
    /\ UNCHANGED <<db, hist, nstarted, bd, legacy_sessions, wake_reminders, engine>>

\* /gun, safe: update_roulette_position(chat_id, position=new_position)
GunUpdate(p) ==
    /\ pc[p] = "gun_update"
    /\ russian_roulette' = update_roulette_position(loc[p].chat, loc[p].game[3] + 1)
    /\ Finish(p)
    /\ UNCHANGED <<db, hist, nstarted, bd, legacy_sessions, wake_reminders, engine>>

NextGun ==
    \E p \in Procs :
        \/ \E args \in GunArgs, c \in Chats, u \in Users : GunBegin(p, args, c, u)
        \/ GunExisting(p)
        \/ GunCreate(p)
        \/ GunGetActive(p)
        \/ GunRecord(p)
        \/ GunDelete(p)
        \/ GunUpdate(p)
        \/ Raise(p)

SpecGun == InitWake /\ [][NextGun]_vars


\* ================================================================== claims
SameTriple(r, c, u, d) == r.chat_id = c /\ r.user_id = u /\ r.session_day = d
CheckIns == {i \in DOMAIN hist : hist[i].op = "check_in"}
CheckOuts == {i \in DOMAIN hist : hist[i].op = "check_out"}

\* C1: in every reachable state at most one session row exists for each
\* (chat, user, business day)
C1_OneSessionPerDay ==
    \A i, j \in DOMAIN sessions :
        SameTriple(sessions[i], sessions[j].chat_id, sessions[j].user_id,
                   sessions[j].session_day) => i = j

\* a second check-in of a (chat, user, business day) was made and refused
C1_Witness ==
    \E i \in CheckIns :
        /\ ~hist[i].ok
        /\ \E j \in DOMAIN sessions :
              SameTriple(sessions[j], hist[i].chat, hist[i].user, hist[i].day)

\* C2: of the check_in calls made for one (chat, user, business day), whatever their
\* interleaving, exactly one returned true and every other one returned false
C2_ExactlyOneCheckInSucceeds ==
    \A i \in CheckIns :
        Cardinality({j \in CheckIns :
                        /\ hist[j].chat = hist[i].chat
                        /\ hist[j].user = hist[i].user
                        /\ hist[j].day = hist[i].day
                        /\ hist[j].ok}) = 1

\* two handlers in flight at once have both called check_in for the same triple
C2_Witness ==
    /\ pc[1] = "zao_get_open"
    /\ pc[2] = "zao_already"
    /\ loc[1].chat = loc[2].chat
    /\ loc[1].user = loc[2].user
    /\ today_key(1) = today_key(2)
    /\ loc[1].now # loc[2].now

\* C3: a check_out succeeds only on a session of (chat, user) that was open and whose
\* session_day is the business day of its timestamp, and no step changes a session
\* otherwise: a session of another business day is never modified
C3_CheckOutOnlyToday ==
    [][/\ \A i \in DOMAIN sessions :
             sessions'[i] # sessions[i] =>
                \E p \in Procs :
                    /\ pc[p] = "wan_check_out_write"
                    /\ loc[p].sid = i
                    /\ sessions[i].chat_id = loc[p].chat
                    /\ sessions[i].user_id = loc[p].user
                    /\ sessions[i].session_day = business_day_key(loc[p].now, CUTOFF_HOUR)
                    /\ sessions'[i] = [sessions[i] EXCEPT !.check_out = sessions'[i].check_out]
       /\ \A p \in Procs :
             (pc[p] = "wan_check_out" /\ pc'[p] = "wan_check_out_write") =>
                \E i \in DOMAIN sessions :
                    /\ SameTriple(sessions[i], loc[p].chat, loc[p].user,
                                  business_day_key(loc[p].now, CUTOFF_HOUR))
                    /\ sessions[i].check_out = NULL
                    /\ loc'[p].sid = i
       /\ \A p \in Procs :
             (pc[p] = "wan_check_out" /\ pc'[p] # pc[p] /\ Len(hist') > Len(hist)) =>
                /\ ~hist'[Len(hist')].ok
                /\ sessions' = sessions
      ]_vars

\* a session of an earlier business day is still open after a check_out of the same
\* user with a timestamp in a later business day has returned
C3_Witness ==
    \E i \in DOMAIN sessions, k \in CheckOuts :
        /\ sessions[i].chat_id = hist[k].chat
        /\ sessions[i].user_id = hist[k].user
        /\ sessions[i].check_out = NULL
        /\ sessions[i].session_day[1] < hist[k].day[1]
        /\ ~hist[k].ok

SessionCalls(c, u, k) ==
    {i \in 1..k : hist[i].op \in {"check_in", "check_out"}
                  /\ hist[i].chat = c /\ hist[i].user = u}

\* the scenario of C5: the first three calls of a user are a check-in at 03:30 of
\* some calendar day (hist[i], accepted), a check-in at 03:45 of that day (hist[j])
\* and a check-out (hist[k])
IsFirstCheckIn(i) ==
    /\ hist[i].op = "check_in" /\ hist[i].ok
    /\ hist[i].ts % SecPerDay = HM(3, 30)
    /\ SessionCalls(hist[i].chat, hist[i].user, i) = {i}

IsSecondCheckIn(i, j) ==
    /\ hist[j].op = "check_in"
    /\ hist[j].ts = hist[i].ts - HM(3, 30) + HM(3, 45)
    /\ SessionCalls(hist[i].chat, hist[i].user, j) = {i, j}

IsCheckOutAt(i, j, k, t) ==
    /\ hist[k].op = "check_out"
    /\ hist[k].ts = hist[i].ts - HM(3, 30) + t
    /\ SessionCalls(hist[i].chat, hist[i].user, k) = {i, j, k}

\* C5 as stated: after a check-in at 03:30 of date D and a refused second check-in at
\* 03:45, a check_out at 10:00 of date D succeeds and returns 6h30m
C5_Original ==
    \A i \in DOMAIN hist : IsFirstCheckIn(i) =>
        \A j \in (i + 1)..Len(hist) : (IsSecondCheckIn(i, j) /\ ~hist[j].ok) =>
            \A k \in (j + 1)..Len(hist) : IsCheckOutAt(i, j, k, HM(10, 0)) =>
                (hist[k].ok /\ hist[k].val = HM(6, 30))

\* C5 amended: after a check-in at 03:30 of date D (session day D-1) the second
\* check-in at 03:45 is refused; a check_out at 10:00 of date D is refused and leaves
\* the session open, because 10:00 lies in business day D; a check_out before 04:00
\* of date D succeeds and returns the time since the 03:30 check-in
C5_CheckOutAfterCutoffRefused ==
    \A i \in DOMAIN hist : IsFirstCheckIn(i) =>
        /\ hist[i].day = date_isoformat(date(hist[i].ts) - 1)
        /\ \A j \in (i + 1)..Len(hist) : IsSecondCheckIn(i, j) =>
            /\ ~hist[j].ok
            /\ \A k \in (j + 1)..Len(hist) :
                /\ IsCheckOutAt(i, j, k, HM(10, 0)) =>
                      /\ ~hist[k].ok
                      /\ k = Len(hist) => sessions[hist[i].sid].check_out = NULL
                /\ \A t \in {x \in TimesOfDay : x < HM(CUTOFF_HOUR, 0)} :
                      IsCheckOutAt(i, j, k, t) =>
                          /\ hist[k].ok
                          /\ hist[k].sid = hist[i].sid
                          /\ hist[k].val = (IF t > HM(3, 30) THEN t - HM(3, 30) ELSE 0)

\* the scenario has run with the check_out at 10:00: refused, the session still open
C5_Witness ==
    \E i \in DOMAIN hist : \E j \in (i + 1)..Len(hist) : \E k \in (j + 1)..Len(hist) :
        /\ IsFirstCheckIn(i)
        /\ IsSecondCheckIn(i, j) /\ ~hist[j].ok
        /\ IsCheckOutAt(i, j, k, HM(10, 0)) /\ ~hist[k].ok
        /\ sessions[hist[i].sid].check_out = NULL

\* C6: business_day_key(ts, cutoff_hour) is the calendar date of ts minus one day when
\* the time of day of ts is before cutoff_hour:00:00 and the calendar date of ts
\* otherwise (the cutoff itself belongs to the new day); it is non-decreasing in ts
ExpectedDay(ts, h) ==
    IF ts % SecPerDay < h * SecPerHour THEN <<(ts \div SecPerDay) - 1>> ELSE <<ts \div SecPerDay>>

C6_BusinessDayKey ==
    bd.key_a # NULL =>
        /\ bd.key_a = ExpectedDay(bd.a, bd.cutoff_hour)
        /\ bd.key_b = ExpectedDay(bd.b, bd.cutoff_hour)
        /\ bd.a <= bd.b => bd.key_a[1] <= bd.key_b[1]

\* the key was computed for a timestamp exactly at the cutoff and for the second
\* before it: the two fall in consecutive business days
C6_Witness ==
    /\ bd.key_a # NULL
    /\ bd.cutoff_hour = CUTOFF_HOUR
    /\ bd.a % SecPerDay = CUTOFF_HOUR * SecPerHour
    /\ bd.b = bd.a - 1
    /\ bd.key_a = date_isoformat(date(bd.a))
    /\ bd.key_b = date_isoformat(date(bd.a) - 1)


\* the daily_earliest events of (chat c, day d) in the ledger
DailyEvents(c, d) ==
    {i \in DOMAIN achievement_events :
        /\ achievement_events[i].chat_id = c
        /\ achievement_events[i].key = ACH_DAILY_EARLIEST
        /\ achievement_events[i].day = d}

SessionDays(c) == {sessions[i].session_day : i \in {j \in DOMAIN sessions : sessions[j].chat_id = c}}

AllDays(c) ==
    SessionDays(c) \cup {r.day : r \in {x \in daily_earliest : x.chat_id = c}}
                   \cup {achievement_events[i].day : i \in DOMAIN achievement_events}

AtMostOneEarliest ==
    \A c \in Chats : \A d \in AllDays(c) :
        /\ Cardinality({r \in daily_earliest : r.chat_id = c /\ r.day = d}) <= 1
        /\ Cardinality(DailyEvents(c, d)) <= 1

\* a call of set_daily_earliest by p returns in this step
SetDailyEarliestReturns(p) ==
    /\ pc[p] = "oci_set_daily_earliest" /\ pc'[p] # pc[p]
    /\ Len(hist') > Len(hist)

\* C7: in every interleaving of check-ins each (chat, day) has at most one DailyEarliest
\* row and at most one daily_earliest ledger event, and set_daily_earliest for a
\* (chat, day) that is already set returns false, changes no row and is followed by no award
C7_AtMostOneDailyEarliest ==
    /\ []AtMostOneEarliest
    /\ [][\A p \in Procs :
            (SetDailyEarliestReturns(p) /\ pk_daily_earliest(loc[p].chat, loc[p].day)) =>
                /\ ~hist'[Len(hist')].ok
                /\ daily_earliest' = daily_earliest
                /\ achievement_events' = achievement_events
                /\ achievement_stats' = achievement_stats
                /\ pc'[p] = "idle"]_vars

\* two users checked in on one day: the first holds the row and the event, the call
\* of the second returned false
C7_Witness ==
    \E i, j \in DOMAIN hist :
        /\ i < j
        /\ hist[i].op = "set_daily_earliest" /\ hist[i].ok
        /\ hist[j].op = "set_daily_earliest" /\ ~hist[j].ok
        /\ hist[j].chat = hist[i].chat /\ hist[j].day = hist[i].day
        /\ hist[j].user # hist[i].user
        /\ Cardinality(DailyEvents(hist[i].chat, hist[i].day)) = 1

\* the users who hold the daily_earliest award of (chat c, day d): ledger event and
\* a counted stat
Holders(c, d) ==
    {u \in Users :
        /\ \E i \in DailyEvents(c, d) : achievement_events[i].user_id = u
        /\ get_achievement_count(c, u, ACH_DAILY_EARLIEST) > 0}

\* C8: once every handler has run to completion, each (chat, business day) with a
\* session has exactly one holder of the daily_earliest award
C8_AwardNeverLost ==
    (\A p \in Procs : pc[p] = "idle") =>
        \A c \in Chats : \A d \in SessionDays(c) : Cardinality(Holders(c, d)) = 1

\* what update_streak returns and stores for a stored row (NULL or <<last_day, streak>>)
ExpectedStreak(stored, day) ==
    IF stored = NULL THEN 1
    ELSE IF Len(day) = 1 /\ Len(stored[1]) = 1 /\ day[1] = stored[1][1] + 1
         THEN stored[2] + 1
         ELSE 1

\* C9: a call of update_streak that runs alone returns and stores 1 when there is no
\* row, previous+1 when day is exactly one day after the stored last_day and 1 in every
\* other case, and sets last_day to day
C9_UpdateStreak ==
    [][\A p \in Procs :
         LET l == loc[p]
             stored == select_streak(l.chat, l.user, "earliest")
         IN  (pc[p] = "streak_write" /\ pc'[p] # pc[p] /\ Len(hist') > Len(hist)
                /\ l.row = stored) =>
                 /\ hist'[Len(hist')].ok
                 /\ hist'[Len(hist')].val = ExpectedStreak(stored, l.day)
                 /\ {r \in streaks' : r.chat_id = l.chat /\ r.user_id = l.user
                                        /\ r.key = "earliest"} =
                        {streak_row(l.chat, l.user, "earliest", l.day,
                                    ExpectedStreak(stored, l.day))}]_vars

\* three calls for three consecutive days returned 1, 2, 3 and the row holds streak 3
C9_Witness ==
    \E c \in Chats, u \in Users :
        /\ select_streak(c, u, "earliest") = <<date_isoformat(2), 3>>
        /\ \E i, j, k \in DOMAIN hist :
              /\ i < j /\ j < k
              /\ \A x \in {i, j, k} : hist[x].op = "update_streak" /\ hist[x].user = u
              /\ hist[i].val = 1 /\ hist[j].val = 2 /\ hist[k].val = 3

\* the finished update_streak calls of (chat c, user u), in the order they returned
StreakCalls(c, u) ==
    SelectSeq(hist, LAMBDA e : e.op = "update_streak" /\ e.chat = c /\ e.user = u)

Perms(n) == {f \in [1..n -> 1..n] : \A i, j \in 1..n : i # j => f[i] # f[j]}

\* the row after the calls f[1], ..., f[i] have run one after the other
RECURSIVE SerialRow(_, _, _)
SerialRow(calls, f, i) ==
    IF i = 0 THEN NULL
    ELSE <<calls[f[i]].day, ExpectedStreak(SerialRow(calls, f, i - 1), calls[f[i]].day)>>

Serializable(c, u) ==
    LET calls == StreakCalls(c, u)
        n == Len(calls)
    IN  \E f \in Perms(n) :
            /\ \A i \in 1..n : calls[f[i]].val = SerialRow(calls, f, i)[2]
            /\ select_streak(c, u, "earliest") = SerialRow(calls, f, n)

\* C10: when all update_streak calls have returned, none has failed and the counts
\* returned and the final row are those of some serial order of the calls
C10_NoLostUpdate ==
    (\A p \in Procs : pc[p] = "idle") =>
        \A c \in Chats, u \in Users :
            /\ \A i \in DOMAIN StreakCalls(c, u) : StreakCalls(c, u)[i].ok
            /\ Serializable(c, u)


\* C11: a session's check_out is set at most once: of all the check_out calls about
\* one session at most one returns success
C11_CheckOutOnce ==
    \A i, j \in CheckOuts :
        (hist[i].ok /\ hist[j].ok /\ hist[i].sid = hist[j].sid) => i = j


\* the ledger events of (chat c, user u, key k)
LedgerEvents(c, u, k) ==
    {i \in DOMAIN achievement_events :
        /\ achievement_events[i].chat_id = c
        /\ achievement_events[i].user_id = u
        /\ achievement_events[i].key = k}

StatRows(c, u, k) ==
    {r \in achievement_stats : r.chat_id = c /\ r.user_id = u /\ r.key = k}

\* C12: in every reachable state, for every (chat, user, key) the stat count equals
\* the number of ledger events of that (chat, user, key); no events, no stat row
C12_StatsMatchLedger ==
    \A c \in Chats, u \in Users, k \in AchKeys :
        LET n == Cardinality(LedgerEvents(c, u, k))
        IN  StatRows(c, u, k) = IF n = 0 THEN {}
                                ELSE {[chat_id |-> c, user_id |-> u, key |-> k, count |-> n]}

\* a stat row that was incremented after six earlier awards, next to a row of another
\* key that was inserted with count 1
C12_Witness ==
    \E c \in Chats, u \in Users :
        /\ Cardinality(LedgerEvents(c, u, ACH_DAILY_EARLIEST)) = PriorStreak + 1
        /\ get_achievement_count(c, u, ACH_DAILY_EARLIEST) = PriorStreak + 1
        /\ get_achievement_count(c, u, ACH_STREAK_EARLIEST_7) = 1


\* the ledger already holds an event with the dedup key of call e: (chat, day) for
\* daily_earliest, (chat, user, day) for streak_earliest_7, (chat, user, session) for
\* ontime_8h and longday_12h
DedupTaken(e) ==
    \E i \in DOMAIN achievement_events :
        LET x == achievement_events[i]
        IN  /\ x.key = e.key /\ x.chat_id = e.chat
            /\ \/ e.key = ACH_DAILY_EARLIEST /\ x.day = e.day
               \/ e.key = ACH_STREAK_EARLIEST_7 /\ x.user_id = e.user /\ x.day = e.day
               \/ e.key \in {ACH_ONTIME_8H, ACH_LONGDAY_12H}
                    /\ x.user_id = e.user /\ x.session_id = e.sid

\* C13: a call of award_achievement whose dedup key is already in the ledger returns
\* false (it does return) and leaves ledger and stats unchanged
C13_AwardIdempotent ==
    [][(/\ Len(hist') = Len(hist) + 1
        /\ hist'[Len(hist')].op = "award_achievement"
        /\ DedupTaken(hist'[Len(hist')])) =>
            /\ ~hist'[Len(hist')].ok
            /\ achievement_events' = achievement_events
            /\ achievement_stats' = achievement_stats]_vars

\* longday_12h was awarded for a session and the call was repeated for the same
\* (chat, user, session): the repetition returned false and the ledger holds one event
C13_Witness ==
    /\ Len(achievement_events) = 1
    /\ \E i, j \in DOMAIN hist :
          /\ i < j
          /\ hist[i].op = "award_achievement" /\ hist[i].ok
          /\ hist[j].op = "award_achievement" /\ ~hist[j].ok
          /\ hist[j].key = hist[i].key /\ hist[j].key = ACH_LONGDAY_12H
          /\ hist[j].chat = hist[i].chat /\ hist[j].user = hist[i].user
          /\ hist[j].sid = hist[i].sid /\ hist[j].sid # 0


\* a call of check_in returns false in this step
CheckInRefused ==
    /\ Len(hist') = Len(hist) + 1
    /\ hist'[Len(hist')].op = "check_in"
    /\ ~hist'[Len(hist')].ok

\* C14: a check_in that returns false changes no stored state: sessions,
\* daily_earliest, streaks, ledger and stats (and users, chats) stay as they were
C14_RefusedCheckInChangesNothing ==
    [][CheckInRefused =>
          /\ sessions' = sessions
          /\ daily_earliest' = daily_earliest
          /\ streaks' = streaks
          /\ achievement_events' = achievement_events
          /\ achievement_stats' = achievement_stats
          /\ users' = users /\ chats' = chats]_vars

\* a second check_in of user 1 for Friday was refused and the Friday session is the
\* open one the database started with
C14_Witness ==
    /\ \E i \in CheckIns :
          /\ ~hist[i].ok /\ hist[i].user = 1
          /\ hist[i].day = date_isoformat(0) /\ hist[i].ts = HM(18, 0)
    /\ sessions[1] = session_row(1, 1, HM(10, 0))


\* C15: check_in returns false only when a session of (chat, user,
\* business_day_key(ts)) exists; every refused check_in has such a session
C15_RefusedOnlyWhenDuplicate ==
    \A i \in CheckIns :
        ~hist[i].ok =>
            \E j \in DOMAIN sessions :
                SameTriple(sessions[j], hist[i].chat, hist[i].user, hist[i].day)


\* (chat c, user u) has no open session of business day d
NoOpenSession(c, u, d) ==
    ~\E i \in DOMAIN sessions : SameTriple(sessions[i], c, u, d) /\ sessions[i].check_out = NULL

NoSession(c, u, d) == ~\E i \in DOMAIN sessions : SameTriple(sessions[i], c, u, d)

MostRecentOpen(c, u) ==
    LET S == {i \in DOMAIN sessions : /\ sessions[i].chat_id = c /\ sessions[i].user_id = u
                                      /\ sessions[i].check_out = NULL}
    IN  IF S = {} THEN 0 ELSE CHOOSE i \in S : \A j \in S : j <= i

ExpectedWanReply(c, u, d) ==
    IF MostRecentOpen(c, u) # 0 /\ sessions[MostRecentOpen(c, u)].session_day # d
    THEN "checkout_cross_day"
    ELSE IF ~NoSession(c, u, d) THEN "day_ended" ELSE "checkout_not_checked_in"

Replies == {i \in DOMAIN hist : hist[i].op = "reply"}

\* C17: after a failed check_out cmd_wan sends one message: cross-day exactly when the
\* user's newest open session in the chat is of another business day than today's,
\* else day-ended exactly when a session of today's business day exists, else
\* not-checked-in; no session is modified on the way
C17_WanRefusals ==
    /\ [](\A i \in Replies :
            /\ i > 1
            /\ hist[i - 1].op = "check_out" /\ ~hist[i - 1].ok
            /\ hist[i - 1].chat = hist[i].chat /\ hist[i - 1].user = hist[i].user
            /\ hist[i - 1].ts = hist[i].ts)
    /\ [][/\ (Len(hist') = Len(hist) + 1 /\ hist'[Len(hist')].op = "reply") =>
               LET e == hist'[Len(hist')]
               IN  e.key = ExpectedWanReply(e.chat, e.user, ExpectedDay(e.ts, CUTOFF_HOUR))
          /\ (\E p \in Procs : pc[p] \in {"wan_any_open", "wan_today_exists"}) =>
               sessions' = sessions]_vars

\* a user with no session was told not-checked-in, checked in before the cutoff and,
\* after the cutoff, was told cross-day; the stale session is still open
C17_Witness ==
    \E i, j \in Replies :
        /\ i < j
        /\ hist[i].key = "checkout_not_checked_in"
        /\ hist[j].key = "checkout_cross_day"
        /\ hist[j].user = hist[i].user
        /\ MostRecentOpen(hist[j].chat, hist[j].user) # 0


\* (chat c, user u) has an open session of a business day before d
StaleOpen(c, u, d) ==
    \E i \in DOMAIN sessions :
        /\ sessions[i].chat_id = c /\ sessions[i].user_id = u
        /\ sessions[i].check_out = NULL
        /\ sessions[i].session_day[1] < d[1]

\* C18: a check_in on a business day that has no session of the user yet, made while
\* the user still has an open session of an earlier business day, returns true, adds
\* an open session of the new day and leaves every older row, the stale one included,
\* as it was
C18_CheckInOverStaleSession ==
    [][(/\ Len(hist') = Len(hist) + 1
        /\ hist'[Len(hist')].op = "check_in"
        /\ LET e == hist'[Len(hist')]
           IN  StaleOpen(e.chat, e.user, e.day) /\ NoSession(e.chat, e.user, e.day)) =>
           /\ hist'[Len(hist')].ok
           /\ Len(sessions') = Len(sessions) + 1
           /\ \A i \in DOMAIN sessions : sessions'[i] = sessions[i]
           /\ sessions'[Len(sessions')].check_out = NULL
           /\ SameTriple(sessions'[Len(sessions')], hist'[Len(hist')].chat,
                         hist'[Len(hist')].user, hist'[Len(hist')].day)]_vars

\* one user has two open sessions, of consecutive business days
C18_Witness ==
    \E i, j \in DOMAIN sessions :
        /\ sessions[i].user_id = sessions[j].user_id
        /\ sessions[i].chat_id = sessions[j].chat_id
        /\ sessions[i].check_out = NULL /\ sessions[j].check_out = NULL
        /\ sessions[j].session_day[1] = sessions[i].session_day[1] + 1
        /\ \E k \in CheckIns : hist[k].ok /\ hist[k].sid = j


Streak7Events ==
    {i \in DOMAIN achievement_events : achievement_events[i].key = ACH_STREAK_EARLIEST_7}

IsMultipleOf7(n) == \E m \in 1..3 : n = 7 * m

\* C19: on_check_in awards streak_earliest_7 exactly when update_streak for "earliest"
\* returned 7, 14, 21, ..., and only to the user who holds the DailyEarliest row of
\* that day
C19_Streak7OnMultiples ==
    /\ [](\A i \in Streak7Events :
            LET x == achievement_events[i]
            IN  /\ \E r \in daily_earliest :
                      r.chat_id = x.chat_id /\ r.day = x.day /\ r.user_id = x.user_id
                /\ \E j \in DOMAIN hist :
                      /\ hist[j].op = "update_streak" /\ hist[j].ok
                      /\ hist[j].chat = x.chat_id /\ hist[j].user = x.user_id
                      /\ hist[j].day = x.day /\ IsMultipleOf7(hist[j].val))
    /\ [][\A p \in Procs :
            /\ (/\ pc[p] = "streak_write" /\ pc'[p] # pc[p] /\ Len(hist') > Len(hist)
                /\ hist'[Len(hist')].ok) =>
                  (pc'[p] = "oci_award_streak7" <=> IsMultipleOf7(hist'[Len(hist')].val))
            /\ (pc[p] = "oci_award_streak7" /\ pc'[p] # pc[p] /\ Len(hist') > Len(hist)) =>
                  \E i \in DOMAIN achievement_events' :
                      achievement_events'[i] =
                          event_row(loc[p].chat, loc[p].user, ACH_STREAK_EARLIEST_7,
                                    loc[p].day, 0)]_vars

\* update_streak returned 14 to the day's earliest user and the award is in the ledger
C19_Witness ==
    \E i \in Streak7Events : \E j \in DOMAIN hist :
        /\ hist[j].op = "update_streak" /\ hist[j].val = 2 * 7
        /\ hist[j].user = achievement_events[i].user_id
        /\ hist[j].day = achievement_events[i].day


\* [7h59m, 8h1m] in seconds; business days 1 and 2 of every week are Saturday and Sunday
InOntimeRange(dur) == 7 * 3600 + 59 * 60 <= dur /\ dur <= 8 * 3600 + 60
IsSatOrSun(day) == day[1] % 7 \in {1, 2}

OntimeEvents == {i \in DOMAIN achievement_events : achievement_events[i].key = ACH_ONTIME_8H}
OnCheckOuts == {i \in DOMAIN hist : hist[i].op = "on_check_out"}

\* C20 as stated: every on_check_out with a duration in [7h59m, 8h1m] for a session of
\* a Monday-to-Friday business day awards ontime_8h for that session
C20_Original ==
    (\A p \in Procs : pc[p] = "idle") =>
        \A i \in OnCheckOuts :
            (InOntimeRange(hist[i].val) /\ ~IsSatOrSun(hist[i].day)) =>
                \E j \in OntimeEvents :
                    /\ achievement_events[j].chat_id = hist[i].chat
                    /\ achievement_events[j].user_id = hist[i].user
                    /\ achievement_events[j].session_id = hist[i].sid

\* C20 amended: on_check_out goes on to ontime_8h exactly when the duration lies in
\* [7h59m, 8h1m] and the session's business day is Monday to Friday; it then awards
\* ontime_8h for the session exactly when the user holds no ontime_8h in the chat yet;
\* nothing else in on_check_out adds an ontime_8h event
C20_OntimeFirstOnly ==
    [][/\ (Len(hist') = Len(hist) + 1 /\ hist'[Len(hist')].op = "on_check_out") =>
            ((\E p \in Procs : pc[p] = "idle" /\ pc'[p] = "oco_get_count")
                <=> (/\ InOntimeRange(hist'[Len(hist')].val)
                     /\ ~IsSatOrSun(hist'[Len(hist')].day)))
       /\ \A p \in Procs :
            /\ (pc[p] = "oco_get_count" /\ pc'[p] # pc[p]) =>
                  (pc'[p] = "oco_award_ontime"
                      <=> LedgerEvents(loc[p].chat, loc[p].user, ACH_ONTIME_8H) = {})
            /\ (pc[p] = "oco_award_ontime" /\ pc'[p] # pc[p]) =>
                  \E i \in DOMAIN achievement_events' :
                      /\ achievement_events'[i].key = ACH_ONTIME_8H
                      /\ achievement_events'[i].chat_id = loc[p].chat
                      /\ achievement_events'[i].user_id = loc[p].user
                      /\ achievement_events'[i].session_id = loc[p].sid
       /\ (\E i \in DOMAIN achievement_events' :
              /\ i > Len(achievement_events)
              /\ achievement_events'[i].key = ACH_ONTIME_8H) =>
            \/ pc' = pc
            \/ \E p \in Procs : pc[p] = "oco_award_ontime" /\ pc'[p] = "idle"]_vars

\* on_check_out ran for the Friday session with 8h1m1s and with 8h1m: the ledger holds
\* one ontime_8h event, of that session
C20_Witness ==
    /\ \A p \in Procs : pc[p] = "idle"
    /\ \E i, j \in OnCheckOuts :
          /\ hist[i].val = 8 * 3600 + 61 /\ hist[j].val = 8 * 3600 + 60
          /\ hist[i].sid = 1 /\ hist[j].sid = 1
    /\ Cardinality(OntimeEvents) = 1
    /\ \A i \in OntimeEvents : achievement_events[i].session_id = 1
    /\ Cardinality({i \in DOMAIN hist : hist[i].op = "award_achievement"}) = 1


\* the longday_12h events of (chat c, user u, session sid) in the ledger
LongdayEvents(c, u, sid) ==
    {i \in DOMAIN achievement_events :
        /\ achievement_events[i].key = ACH_LONGDAY_12H
        /\ achievement_events[i].chat_id = c
        /\ achievement_events[i].user_id = u
        /\ achievement_events[i].session_id = sid}

\* C21: on_check_out goes on to longday_12h exactly when the duration is strictly
\* greater than 12 hours and the session's business day is Monday to Friday; the award
\* succeeds and raises the user's count by one when the session has no longday_12h
\* event yet, and changes nothing when it has one, so each session holds at most one
C21_LongdayPerSession ==
    /\ [](\A i, j \in DOMAIN achievement_events :
            (/\ achievement_events[i].key = ACH_LONGDAY_12H
             /\ achievement_events[j].key = ACH_LONGDAY_12H
             /\ achievement_events[j].chat_id = achievement_events[i].chat_id
             /\ achievement_events[j].user_id = achievement_events[i].user_id
             /\ achievement_events[j].session_id = achievement_events[i].session_id) => i = j)
    /\ [][/\ (Len(hist') = Len(hist) + 1 /\ hist'[Len(hist')].op = "on_check_out") =>
               ((\E p \in Procs : pc[p] = "idle" /\ pc'[p] = "oco_award_longday")
                   <=> (/\ hist'[Len(hist')].val > 12 * 3600
                        /\ ~IsSatOrSun(hist'[Len(hist')].day)))
          /\ \A p \in Procs :
               (pc[p] = "oco_award_longday" /\ pc'[p] # pc[p] /\ Len(hist') > Len(hist)) =>
                  LET l == loc[p]
                      had == LongdayEvents(l.chat, l.user, l.sid) # {}
                      n == Cardinality(LedgerEvents(l.chat, l.user, ACH_LONGDAY_12H))
                  IN  /\ hist'[Len(hist')].ok <=> ~had
                      /\ Len(achievement_events') = Len(achievement_events) + (IF had THEN 0 ELSE 1)
                      /\ \E i \in DOMAIN achievement_events' :
                            /\ achievement_events'[i].key = ACH_LONGDAY_12H
                            /\ achievement_events'[i].chat_id = l.chat
                            /\ achievement_events'[i].user_id = l.user
                            /\ achievement_events'[i].session_id = l.sid
                      /\ ~had => achievement_events'[Len(achievement_events')] =
                                    event_row(l.chat, l.user, ACH_LONGDAY_12H, l.day, l.sid)
                      /\ \E r \in achievement_stats' :
                            /\ r.chat_id = l.chat /\ r.user_id = l.user
                            /\ r.key = ACH_LONGDAY_12H
                            /\ r.count = n + (IF had THEN 0 ELSE 1)]_vars

\* on_check_out ran with 12h0m1s for the Thursday and for the Friday session of one
\* user: two longday_12h events, one per session, and a count of 2
C21_Witness ==
    /\ \A p \in Procs : pc[p] = "idle"
    /\ \E i, j \in OnCheckOuts :
          /\ hist[i].sid # hist[j].sid
          /\ hist[i].user = hist[j].user
          /\ hist[i].val = 12 * 3600 + 1 /\ hist[j].val = 12 * 3600 + 1
          /\ Cardinality(LongdayEvents(hist[i].chat, hist[i].user, hist[i].sid)) = 1
          /\ Cardinality(LongdayEvents(hist[j].chat, hist[j].user, hist[j].sid)) = 1
          /\ get_achievement_count(hist[i].chat, hist[i].user, ACH_LONGDAY_12H) = 2


\* the business day of the stored check-in of session sid
CheckInDay(sid) == ExpectedDay(parse_dt(sessions[sid].check_in), CUTOFF_HOUR)
\* the calendar day on which a session checked in at sid's check-in ends after dur
CheckOutDate(sid, dur) == (parse_dt(sessions[sid].check_in) + dur) \div SecPerDay

\* C22: on_check_out tests the weekday of the business day of the session's check-in:
\* it goes on to an award exactly when that day is Monday to Friday and the duration
\* qualifies, whatever the day of the check-out moment, and the day it passes to the
\* award is the check-in's business day
C22_WeekdayOfCheckIn ==
    [][(Len(hist') = Len(hist) + 1 /\ hist'[Len(hist')].op = "on_check_out") =>
          LET e == hist'[Len(hist')]
              qualifies == InOntimeRange(e.val) \/ e.val > 12 * 3600
          IN  /\ e.day = CheckInDay(e.sid)
              /\ (\E p \in Procs : pc[p] = "idle" /\ pc'[p] # "idle")
                    <=> (qualifies /\ ~IsSatOrSun(CheckInDay(e.sid)))
              /\ \A p \in Procs :
                    (pc[p] = "idle" /\ pc'[p] # "idle") => loc'[p].day = CheckInDay(e.sid)]_vars

\* on_check_out ran for the session checked in on Friday 10:00 with 15 hours, which
\* end on Saturday, and longday_12h is in the ledger; it ran for a session checked in
\* on Monday 03:30 with 8h1m, which end on Monday, and no ontime_8h was awarded
C22_Witness ==
    /\ \A p \in Procs : pc[p] = "idle"
    /\ \E i, j \in OnCheckOuts :
          /\ hist[i].val = 15 * 3600
          /\ hist[i].day = <<0>> /\ CheckOutDate(hist[i].sid, hist[i].val) = 1
          /\ LongdayEvents(hist[i].chat, hist[i].user, hist[i].sid) # {}
          /\ hist[j].val = 8 * 3600 + 60
          /\ hist[j].day = <<2>> /\ CheckOutDate(hist[j].sid, hist[j].val) = 3
          /\ OntimeEvents = {}


\* the leaderboards returned by the last call, when the last call was a leaderboard:
\* the tables are still as the call saw them
LastBoards ==
    {k \in DOMAIN hist : hist[k].op = "leaderboard" /\ hist[k].call = hist[Len(hist)].call}

\* the rows of a returned list
Listed(k) == {hist[k].val[j] : j \in DOMAIN hist[k].val}

\* the seconds from check-in to check-out, or to now while the session is open
RECURSIVE ElapsedSum(_, _, _)
ElapsedSum(tbl, S, now) ==
    IF S = {} THEN 0
    ELSE LET i == CHOOSE x \in S : TRUE
             end == IF tbl[i].check_out = NULL THEN now ELSE parse_dt(tbl[i].check_out)
         IN  (end - parse_dt(tbl[i].check_in)) + ElapsedSum(tbl, S \ {i}, now)

\* the sessions of business_day_key(now) in chat c (every chat for c = 0)
TodayRows(tbl, c, now) ==
    {i \in DOMAIN tbl : /\ (c = 0 \/ tbl[i].chat_id = c)
                        /\ tbl[i].session_day = ExpectedDay(now, CUTOFF_HOUR)}

\* C23: leaderboard and leaderboard_global of SQLAlchemyStorage in mode today list
\* exactly the users with a session whose session_day is business_day_key(now), each
\* with the sum of check_out - check_in over those sessions, an open session counting
\* from its check-in up to now
C23_TodayBoard ==
    \A k \in LastBoards :
        (hist[k].key = "today" /\ hist[k].impl.class = "SQLAlchemyStorage") =>
            LET rows == TodayRows(sessions, hist[k].chat, hist[k].ts)
            IN  Listed(k) =
                  {<<u, ElapsedSum(sessions, {i \in rows : sessions[i].user_id = u}, hist[k].ts)>> :
                      u \in {sessions[i].user_id : i \in rows}}


\* the completed sessions of chat c (every chat for c = 0) in tbl
CompletedRows(tbl, c) ==
    {i \in DOMAIN tbl : (c = 0 \/ tbl[i].chat_id = c) /\ tbl[i].check_out # NULL}

\* C24: leaderboard and leaderboard_global in mode all, in every implementation, list
\* exactly the users with a completed session, each with the sum over their completed
\* sessions; a session with check_out = NULL contributes nothing
C24_AllBoardCompletedOnly ==
    \A k \in LastBoards :
        hist[k].key = "all" =>
            LET tbl == table_of(hist[k].impl)
                rows == CompletedRows(tbl, hist[k].chat)
            IN  Listed(k) =
                  {<<u, sum_seconds(hist[k].impl, {i \in rows : tbl[i].user_id = u}, hist[k].ts)>> :
                      u \in {tbl[i].user_id : i \in rows}}


\* the sessions of (chat c, day d), and those that come before session i in the order
\* (check_in ascending, id ascending)
DayRows(c, d) ==
    {i \in DOMAIN sessions : sessions[i].chat_id = c /\ sessions[i].session_day = d}

Before(i) ==
    {j \in DayRows(sessions[i].chat_id, sessions[i].session_day) :
        \/ parse_dt(sessions[j].check_in) < parse_dt(sessions[i].check_in)
        \/ (parse_dt(sessions[j].check_in) = parse_dt(sessions[i].check_in) /\ j < i)}

\* C25: today_checkin_position for a stored session returns one plus the number of
\* sessions of the same (chat, day) that come before it in the order (check_in
\* ascending, id ascending); the positions of the N sessions of a (chat, day) are
\* exactly 1..N, no two alike
C25_PositionIsRank ==
    /\ (Len(hist) > 0 /\ hist[Len(hist)].op = "today_checkin_position") =>
           hist[Len(hist)].val = 1 + Cardinality(Before(hist[Len(hist)].sid))
    /\ \A i \in DOMAIN sessions :
           LET r == sessions[i]
               rows == DayRows(r.chat_id, r.session_day)
           IN  /\ {today_checkin_position(r.chat_id, j, parse_dt(sessions[j].check_in),
                                          r.session_day) : j \in rows}
                     = 1..Cardinality(rows)
               /\ \A j \in rows :
                     j # i => today_checkin_position(r.chat_id, j, parse_dt(sessions[j].check_in),
                                                     r.session_day)
                              # today_checkin_position(r.chat_id, i, parse_dt(r.check_in),
                                                       r.session_day)

\* three sessions of one (chat, day): the first stored checked in last, the other two
\* at the same second; the position asked for the third session is 2
C25_Witness ==
    /\ Len(sessions) = 3
    /\ DayRows(1, sessions[1].session_day) = {1, 2, 3}
    /\ parse_dt(sessions[2].check_in) < parse_dt(sessions[1].check_in)
    /\ sessions[3].check_in = sessions[2].check_in
    /\ hist[Len(hist)].op = "today_checkin_position"
    /\ hist[Len(hist)].sid = 3
    /\ hist[Len(hist)].val = 2


\* the rows returned by the last call, when the last call was streak_rank_global
LastRanks ==
    {k \in DOMAIN hist : /\ hist[k].op = "streak_rank_global"
                         /\ hist[Len(hist)].op = "streak_rank_global"}

\* the streak rows of user u for key k
UserStreaks(k, u) == {r \in streaks : r.key = k /\ r.user_id = u}

\* C26: streak_rank_global returns at most one row per user; the row carries the
\* user's maximum streak over all chats and the chat that attains it, the lowest chat
\* id on a tie; the rows are sorted by streak descending, then user id ascending
C26_BestChatPerUser ==
    \A k \in LastRanks :
        LET v == hist[k].val
        IN  /\ \A i, j \in DOMAIN v : v[i][1] = v[j][1] => i = j
            /\ \A i \in DOMAIN v :
                  LET mine == UserStreaks(hist[k].key, v[i][1])
                  IN  /\ \E r \in mine : r.streak = v[i][2] /\ r.chat_id = v[i][3]
                      /\ \A r \in mine : r.streak <= v[i][2]
                      /\ \A r \in mine : r.streak = v[i][2] => v[i][3] <= r.chat_id
            /\ \A i, j \in DOMAIN v :
                  i < j => \/ v[i][2] > v[j][2]
                           \/ (v[i][2] = v[j][2] /\ v[i][1] < v[j][1])


\* C27: db.py, PostgresStorage and SQLAlchemyStorage (in both dialects) are
\* equivalent: after every sequence of check_in, check_out and leaderboard calls they
\* hold the same sessions, and each call has returned the same on all of them
C27_StoragesEquivalent ==
    /\ legacy_sessions.db = sessions
    /\ legacy_sessions.postgres_storage = sessions
    /\ \A i, j \in DOMAIN hist :
          hist[i].call = hist[j].call =>
              /\ hist[i].ok = hist[j].ok
              /\ hist[i].sid = hist[j].sid
              /\ IF hist[i].op = "leaderboard" THEN Listed(i) = Listed(j)
                 ELSE hist[i].val = hist[j].val


\* the fields of a session that no operation may change
SessionKey(r) == <<r.chat_id, r.user_id, r.session_day, r.check_in>>

\* C28: history is append-only: every step keeps each session with its chat, user,
\* session_day and check_in (only check_out may be set), keeps every daily_earliest
\* row and keeps every ledger event as it was
C28_AppendOnly ==
    [][/\ Len(sessions') >= Len(sessions)
       /\ \A i \in DOMAIN sessions : SessionKey(sessions'[i]) = SessionKey(sessions[i])
       /\ daily_earliest \subseteq daily_earliest'
       /\ Len(achievement_events') >= Len(achievement_events)
       /\ \A i \in DOMAIN achievement_events :
             achievement_events'[i] = achievement_events[i]]_vars

\* a session was inserted by a check-in and then checked out, while the tables hold
\* an older session, a daily_earliest row and a ledger event
C28_Witness ==
    /\ \E i \in DOMAIN sessions :
          /\ i > 1
          /\ sessions[i].check_out # NULL
          /\ \E k \in DOMAIN hist :
                hist[k].op = "check_in" /\ hist[k].ok /\ hist[k].sid = i
          /\ \E k \in DOMAIN hist :
                hist[k].op = "check_out" /\ hist[k].ok /\ hist[k].sid = i
    /\ daily_earliest # {}
    /\ achievement_events # <<>>


\* C29: ontime_8h unlocks once per (chat, user): in every state, concurrent
\* check-outs of the user included, the ontime_8h stat count of a (chat, user) is at
\* most 1
C29_OntimeOnce ==
    \A r \in achievement_stats : r.key = ACH_ONTIME_8H => r.count <= 1


\* (chat c, user u) has a checked-out session of business day d
Completed(c, u, d) ==
    \E i \in DOMAIN sessions : SameTriple(sessions[i], c, u, d) /\ sessions[i].check_out # NULL

ZaoReplies == {i \in DOMAIN hist : hist[i].op = "zao_reply"}

WakePolled == Len(hist') > Len(hist) /\ hist'[Len(hist')].op = "check_wake_reminders"

\* C31: a poll of check_wake_reminders sends every enabled reminder whose next_trigger
\* is at or before the poll time; a one-shot reminder that was sent is deleted, a
\* reminder whose send failed stays stored, and no one-shot reminder is sent twice
C31_PollSendsDue ==
    /\ [](\A i, j \in DOMAIN hist :
             (/\ hist[i].op = "send_message" /\ hist[i].ok
              /\ hist[j].op = "send_message" /\ hist[j].ok
              /\ hist[i].val = hist[j].val) => i = j)
    /\ [][WakePolled =>
             LET now == hist'[Len(hist')].ts
             IN  \A r \in wake_reminders :
                    (r.enabled /\ parse_dt(r.next_trigger) <= now) =>
                        \E k \in (Len(hist) + 1)..Len(hist') :
                            /\ hist'[k].op = "send_message"
                            /\ hist'[k].val = r.id
                            /\ hist'[k].chat = r.chat_id
                            /\ (hist'[k].ok /\ ~r.repeat) => r \notin wake_reminders'
                            /\ ~hist'[k].ok => r \in wake_reminders']_vars


\* C32: the daily_earliest row of a (chat, day) names the session that is first in
\* check-in order: no session of that (chat, day) has an earlier check_in, or an equal
\* check_in and a lower id, than the recorded one
C32_EarliestIsFirst ==
    \A r \in daily_earliest :
        \A i \in DOMAIN sessions :
            (sessions[i].chat_id = r.chat_id /\ sessions[i].session_day = r.day) =>
                /\ ~iso_lt(sessions[i].check_in, r.check_in)
                /\ sessions[i].check_in = r.check_in => i >= r.session_id


\* the days whose daily_earliest row in chat c names user u
EarliestDays(c, u) == {r \in daily_earliest : r.chat_id = c /\ r.user_id = u}

NoCheckInHandler == \A p \in Procs : loc[p].cmd # "zao"

\* C33: every daily_earliest ledger event of a (chat, day) belongs to the user named
\* by the daily_earliest row of that (chat, day), and while no check-in handler is in
\* progress a user's daily_earliest count in a chat is the number of days whose row
\* in that chat names the user
C33_EarliestCountMatchesRows ==
    /\ \A i \in DOMAIN achievement_events :
          LET e == achievement_events[i]
          IN  e.key = ACH_DAILY_EARLIEST =>
                 \E r \in daily_earliest :
                     r.chat_id = e.chat_id /\ r.day = e.day /\ r.user_id = e.user_id
    /\ NoCheckInHandler =>
          \A c \in Chats, u \in Users :
              get_achievement_count(c, u, ACH_DAILY_EARLIEST) = Cardinality(EarliestDays(c, u))


\* the daily_earliest row of (chat c, day d) names user u
HoldsEarliest(c, u, d) ==
    \E r \in daily_earliest : r.chat_id = c /\ r.user_id = u /\ r.day = date_isoformat(d)

\* the number of consecutive days ending at d on which u holds daily_earliest in c
RECURSIVE EarliestRun(_, _, _)
EarliestRun(c, u, d) ==
    IF HoldsEarliest(c, u, d) THEN 1 + EarliestRun(c, u, d - 1) ELSE 0

\* C34: while no check-in handler is in progress, the stored earliest streak of a
\* (chat, user) is the number of consecutive business days ending at its last_day on
\* which the user holds daily_earliest in the chat, and last_day is the latest such day
C34_StreakMatchesRows ==
    NoCheckInHandler =>
        \A r \in streaks :
            r.key = "earliest" =>
                /\ is_iso_date(r.last_day)
                /\ r.streak = EarliestRun(r.chat_id, r.user_id, date_fromisoformat(r.last_day))
                /\ \A e \in EarliestDays(r.chat_id, r.user_id) :
                      date_fromisoformat(e.day) <= date_fromisoformat(r.last_day)


\* C35: every completed session has check_out >= check_in and a check_out of the
\* business day that is its session_day, so its duration is at least 0 and less than
\* 24 hours
C35_CheckOutWithinDay ==
    \A i \in DOMAIN sessions :
        sessions[i].check_out # NULL =>
            LET ci == parse_dt(sessions[i].check_in)
                co == parse_dt(sessions[i].check_out)
            IN  /\ co >= ci
                /\ ExpectedDay(co, CUTOFF_HOUR) = sessions[i].session_day
                /\ co - ci >= 0 /\ co - ci < SecPerDay

\* a check_out whose timestamp was before the session's check_in closed the session
\* at its check_in, and another session was closed hours after its check_in
C35_Witness ==
    /\ \E k \in DOMAIN hist :
          /\ hist[k].op = "check_out" /\ hist[k].ok
          /\ hist[k].ts < parse_dt(sessions[hist[k].sid].check_in)
          /\ sessions[hist[k].sid].check_out = sessions[hist[k].sid].check_in
    /\ \E i \in DOMAIN sessions :
          /\ sessions[i].check_out # NULL
          /\ parse_dt(sessions[i].check_out) > parse_dt(sessions[i].check_in)

\* the handler p is inside on_check_in or on_check_out, which computed loc[p].day
\* from the check_in of the session loc[p].sid
InAchievements(p) ==
    pc[p] \in {"oci_set_daily_earliest", "oci_award_daily", "streak_read", "streak_write",
               "oci_award_streak7", "oco_get_count", "oco_award_ontime", "oco_award_longday"}

\* C36: the session_day check_in wrote is business_day_key of the check_in value read
\* back from storage, and the day on_check_in and on_check_out work under (the day of
\* the DailyEarliest row, the awards and the streak, the day whose weekday is tested)
\* is the session_day of the session they were called for
C36_DayKeyEverywhere ==
    /\ \A i \in 1..Len(hist) :
          (hist[i].op = "check_in" /\ hist[i].ok)
             => sessions[hist[i].sid].session_day =
                   business_day_key(wall_clock(parse_dt(sessions[hist[i].sid].check_in)),
                                    CUTOFF_HOUR)
    /\ \A p \in Procs :
          InAchievements(p) => loc[p].day = sessions[loc[p].sid].session_day
    /\ \A i \in 1..Len(hist) :
          (hist[i].op \in {"set_daily_earliest", "award_achievement"} /\ hist[i].sid # 0)
             => hist[i].day = sessions[hist[i].sid].session_day
\* the replies checkin_inconsistent of cmd_zao
InconsistentReplies ==
    {i \in DOMAIN hist : hist[i].op = "checkin_reply" /\ hist[i].key = "checkin_inconsistent"}

\* hist[j] is a check_out that closed the session of the (chat, user, business day)
\* the record r is about
ClosesDayOf(j, r) ==
    /\ hist[j].op = "check_out" /\ hist[j].ok
    /\ hist[j].chat = r.chat /\ hist[j].user = r.user /\ hist[j].day = r.day

\* C37 as stated: cmd_zao replies checkin_inconsistent only when a check-out of the
\* same user lies between its refused check_in and its get_open_session
C37_Original ==
    \A i \in InconsistentReplies :
        \E k \in 1..(i - 1) :
            /\ hist[k].op = "check_in" /\ ~hist[k].ok
            /\ hist[k].chat = hist[i].chat /\ hist[k].user = hist[i].user
            /\ hist[k].ts = hist[i].ts
            /\ \E j \in (k + 1)..(i - 1) : ClosesDayOf(j, hist[i])

\* C37: cmd_zao replies checkin_inconsistent only when a check-out of the same user
\* closed the day's session after the handler's session_today_completed test (no such
\* check-out had returned when the handler passed the test) and before its
\* get_open_session; the reply never comes without another handler of the same
\* (chat, user) running meanwhile
C37_InconsistentOnlyInterleaved ==
    /\ [](\A i \in InconsistentReplies : \E j \in 1..(i - 1) : ClosesDayOf(j, hist[i]))
    /\ [][\A p \in Procs :
            (pc[p] = "zao_completed" /\ pc'[p] = "zao_check_in") =>
                ~\E j \in DOMAIN hist :
                     ClosesDayOf(j, [chat |-> loc[p].chat, user |-> loc[p].user,
                                     day |-> today_key(p)])]_vars

\* a /zao met the open session of the day, a /wan closed it, and the /zao then
\* answered checkin_inconsistent
C37_Witness ==
    \E i \in InconsistentReplies :
        \E j \in 1..(i - 1) :
            /\ ClosesDayOf(j, hist[i])
            /\ sessions[hist[j].sid].check_out # NULL
            /\ get_open_session(hist[i].chat, hist[i].user, hist[i].day) = 0
\* what the tables hold of chat b: its sessions in id order, its DailyEarliest rows,
\* streaks, achievement counts and ledger events
IsOfChat(b, r) == r.chat_id = b
ChatState(b) ==
    <<SelectSeq(sessions, LAMBDA r : IsOfChat(b, r)),
      {r \in daily_earliest : IsOfChat(b, r)},
      {r \in streaks : IsOfChat(b, r)},
      {r \in achievement_stats : IsOfChat(b, r)},
      SelectSeq(achievement_events, LAMBDA r : IsOfChat(b, r))>>

\* the calls op of chat c before hist[i] that returned true and match hist[i] in
\* the user (when byUser) and in the day
EarlierOk(i, op, byUser) ==
    {j \in 1..(i - 1) :
        /\ hist[j].op = op /\ hist[j].ok
        /\ hist[j].chat = hist[i].chat /\ hist[j].day = hist[i].day
        /\ (byUser => hist[j].user = hist[i].user)}

\* the update_streak calls of the (chat, user) of hist[i] before it
EarlierStreak(i) ==
    {j \in 1..(i - 1) :
        /\ hist[j].op = "update_streak" /\ hist[j].ok
        /\ hist[j].chat = hist[i].chat /\ hist[j].user = hist[i].user}

\* C38: a handler of chat A leaves the sessions, DailyEarliest rows, streaks,
\* achievement counts and events of every other chat as they are, and what check_in,
\* check_out, set_daily_earliest and update_streak return follows from the earlier
\* calls of the same chat alone
C38_ChatsIsolated ==
    /\ [][\A b \in TwoChats :
            (\A p \in Procs : pc[p] # "idle" => loc[p].chat # b) =>
                ChatState(b)' = ChatState(b)]_vars
    /\ [](\A i \in DOMAIN hist :
            /\ hist[i].op = "check_in" =>
                  (hist[i].ok <=> EarlierOk(i, "check_in", TRUE) = {})
            /\ hist[i].op = "check_out" =>
                  (hist[i].ok <=> /\ EarlierOk(i, "check_in", TRUE) # {}
                                  /\ EarlierOk(i, "check_out", TRUE) = {})
            /\ hist[i].op = "set_daily_earliest" =>
                  (hist[i].ok <=> EarlierOk(i, "set_daily_earliest", FALSE) = {})
            /\ (hist[i].op = "update_streak" /\ (hist[i].chat = 2 \/ EarlierStreak(i) # {})) =>
                  /\ hist[i].ok
                  /\ hist[i].val =
                        IF EarlierStreak(i) = {} THEN 1
                        ELSE LET j == Max(EarlierStreak(i))
                             IN  new_streak(hist[i].day, hist[j].day, hist[j].val))

\* one user holds a session of the same business day in each chat, the second
\* checked in while the first was open, and is the day's earliest in both with a
\* streak of its own in each
C38_Witness ==
    \E i, j \in DOMAIN sessions :
        /\ i < j
        /\ sessions[i].chat_id = 1 /\ sessions[j].chat_id = 2
        /\ sessions[i].user_id = sessions[j].user_id
        /\ sessions[i].session_day = sessions[j].session_day
        /\ sessions[i].check_out = NULL
        /\ \E r1, r2 \in daily_earliest :
              /\ r1.chat_id = 1 /\ r1.session_id = i
              /\ r2.chat_id = 2 /\ r2.session_id = j
        /\ \E s1, s2 \in streaks :
              /\ s1.chat_id = 1 /\ s1.user_id = sessions[i].user_id
              /\ s2.chat_id = 2 /\ s2.user_id = sessions[i].user_id
              /\ s1.streak > 1 /\ s2.streak = 1
\* C39: every stored roulette game has 0 <= current_position < bullet_position <=
\* chambers, whatever the interleaving of trigger pulls and game creation
C39_RouletteInvariant ==
    \A r \in russian_roulette :
        /\ 0 <= r.current_position
        /\ r.current_position < r.bullet_position
        /\ r.bullet_position <= r.chambers
====
